---- MODULE Spec2Model ----
(***************************************************************************)
(* Model of app/main.py: the MM-IM remediator.  The module-level code      *)
(* merges five groups of deprecated table names into TABLE_MAP, sorts the  *)
(* keys into TABLE_NAMES and compiles the pattern TABLE_RE;                *)
(* find_mm_im_issues scans one text with it and remediate_mm_im applies    *)
(* the scan to every unit of a request.                                    *)
(*                                                                         *)
(* A Python str is modelled as a sequence of one-character strings, so     *)
(* that offsets, slices and per-character case mapping can be computed;    *)
(* texts that are only copied or concatenated (replacement names, notes,   *)
(* the suggested statement) are TLA+ strings.  A character outside ASCII   *)
(* is written in its escape (\u2192), in a text as in a note.              *)
(* Offsets are 0-based and end-exclusive as in Python; sequences are       *)
(* indexed from 1.                                                         *)
(***************************************************************************)
EXTENDS Integers, Sequences, FiniteSets, TLC

VARIABLES
  pc,           \* where the process is: import, idle, called, returned, received, responded
  GROUPS,       \* the five group dicts, in merge order (lines 16-84)
  TABLE_MAP,    \* module global, line 87
  TABLE_NAMES,  \* module global, line 93
  TABLE_RE,     \* module global, lines 94-99
  txt,          \* argument of the direct call of find_mm_im_issues in progress
  issues,       \* what that call returned
  units,        \* the request body of the POST in progress
  results       \* what remediate_mm_im returned

vars == <<pc, GROUPS, TABLE_MAP, TABLE_NAMES, TABLE_RE, txt, issues, units, results>>

(***************************************************************************)
(* Bounds of the model.                                                    *)
(***************************************************************************)
\* pieces concatenated into a scanned text
MaxPieces == 5

\* units in one request
MaxUnits == 3

(***************************************************************************)
(* Python values.                                                          *)
(***************************************************************************)
\* Optional[str]: None, or a one-element tuple holding the str
None == <<>>

Some(s) == <<s>>

\* Python truthiness of an Optional[str]: None and "" are falsy
Truthy(o) == o # None /\ o[1] # <<>>

\* a dict item; a dict is the sequence of its items in insertion order
E(k, n, t) == [key |-> k, val |-> [new |-> n, note |-> t]]

dict_keys(d) == [i \in 1..Len(d) |-> d[i].key]

dict_has(d, k) == \E i \in 1..Len(d) : d[i].key = k

\* d.get(k): Some(value) or None
dict_get(d, k) ==
  IF dict_has(d, k)
    THEN Some(d[CHOOSE i \in 1..Len(d) : d[i].key = k].val)
    ELSE None

\* {**d, **g}: a key of d keeps its place and takes the value g gives it, if
\* any; the other items of g follow in their order
dict_update(d, g) ==
  [i \in 1..Len(d) |-> IF dict_has(g, d[i].key)
                         THEN [key |-> d[i].key, val |-> dict_get(g, d[i].key)[1]]
                         ELSE d[i]]
  \o SelectSeq(g, LAMBDA e : ~dict_has(d, e.key))

(***************************************************************************)
(* Reference mappings, lines 16-84.                                        *)
(***************************************************************************)
CORE_DOC_MAP ==
  <<
     E(<<"M", "K", "P", "F">>, "MATDOC",
       "Header data no longer stored separately. Still exists as DDIC object, but only read via CDS view NSDM_DDL_MKPF."),
     E(<<"M", "S", "E", "G">>, "MATDOC",
       "Item + header + attributes merged. Proxy CDS: NSDM_DDL_MSEG.")
  >>

HYBRID_MAP ==
  <<
     E(<<"M", "A", "R", "C">>, "NSDM_DDL_MARC / NSDM_MIG_MARC / V_MARC_MD",
       "Plant Data for Material now redirected to CDS views."),
     E(<<"M", "A", "R", "D">>, "NSDM_DDL_MARD / NSDM_MIG_MARD / V_MARD_MD",
       "Storage location data no longer persisted."),
     E(<<"M", "C", "H", "B">>, "NSDM_DDL_MCHB / NSDM_MIG_MCHB / V_MCHB_MD",
       "Batch stock quantities derived from MATDOC."),
     E(<<"M", "K", "O", "L">>, "NSDM_DDL_MKOL / NSDM_MIG_MKOL / V_MKOL_MD",
       "Special stocks from vendor redirected."),
     E(<<"M", "S", "L", "B">>, "NSDM_DDL_MSLB / NSDM_MIG_MSLB / V_MSLB_MD",
       "Special stocks with vendor derived from MATDOC."),
     E(<<"M", "S", "K", "A">>, "NSDM_DDL_MSKA / NSDM_MIG_MSKA / V_MSKA_MD",
       "Sales order stock redirected."),
     E(<<"M", "S", "P", "R">>, "NSDM_DDL_MSPR / NSDM_MIG_MSPR / V_MSPR_MD",
       "Project stock aggregated on the fly."),
     E(<<"M", "S", "K", "U">>, "NSDM_DDL_MSKU / NSDM_MIG_MSKU / V_MSKU_MD",
       "Special stocks with customer from MATDOC.")
  >>

AGGR_MAP ==
  <<
     E(<<"M", "S", "S", "A">>, "NSDM_DDL_MSSA",
       "Customer order totals replaced by CDS view."),
     E(<<"M", "S", "S", "L">>, "NSDM_DDL_MSSL",
       "Special stocks with vendor totals replaced by CDS view."),
     E(<<"M", "S", "S", "Q">>, "NSDM_DDL_MSSQ",
       "Project stock totals replaced by CDS view."),
     E(<<"M", "S", "T", "B">>, "NSDM_DDL_MSTB",
       "Stock in transit replaced by CDS view."),
     E(<<"M", "S", "T", "E">>, "NSDM_DDL_MSTE",
       "Stock in transit (SD Doc) replaced by CDS view."),
     E(<<"M", "S", "T", "Q">>, "NSDM_DDL_MSTQ",
       "Stock in transit for project replaced by CDS view.")
  >>

DIMP_MAP ==
  <<
     E(<<"M", "C", "S", "D">>, "NSDM_DDL_MCSD / MCSD_MD",
       "Customer Stock split: stock \\u2192 MATDOC, master \\u2192 MCSD_MD."),
     E(<<"M", "C", "S", "S">>, "NSDM_DDL_MCSS / MCSS_MD",
       "Customer Stock Total split: stock \\u2192 MATDOC, master \\u2192 MCSS_MD."),
     E(<<"M", "S", "C", "D">>, "NSDM_DDL_MSCD / MSCD_MD",
       "Customer Stock with Vendor split into MATDOC + MSCD_MD."),
     E(<<"M", "S", "C", "S">>, "NSDM_DDL_MSCS / MSCS_MD",
       "Cust. Stock with Vendor Total split into MATDOC + MSCS_MD."),
     E(<<"M", "S", "F", "D">>, "NSDM_DDL_MSFD / MSFD_MD",
       "Sales Order Stock with Vendor split into MATDOC + MSFD_MD."),
     E(<<"M", "S", "F", "S">>, "NSDM_DDL_MSFS / MSFS_MD",
       "Sales Order Stock with Vendor Total split into MATDOC + MSFS_MD."),
     E(<<"M", "S", "I", "D">>, "NSDM_DDL_MSID / MSID_MD",
       "Vendor Stock split into MATDOC + MSID_MD."),
     E(<<"M", "S", "I", "S">>, "NSDM_DDL_MSIS / MSIS_MD",
       "Vendor Stock Total split into MATDOC + MSIS_MD."),
     E(<<"M", "S", "R", "D">>, "NSDM_DDL_MSRD / MSRD_MD",
       "Project Stock with Vendor split into MATDOC + MSRD_MD."),
     E(<<"M", "S", "R", "S">>, "NSDM_DDL_MSRS / MSRS_MD",
       "Project Stock with Vendor Total split into MATDOC + MSRS_MD.")
  >>

HISTORY_MAP ==
  <<
     E(<<"M", "A", "R", "C", "H">>, "NSDM_DDL_MARCH",
       "MARC History redirected to CDS."),
     E(<<"M", "A", "R", "D", "H">>, "NSDM_DDL_MARDH",
       "MARD History redirected to CDS."),
     E(<<"M", "C", "H", "B", "H">>, "NSDM_DDL_MCHBH",
       "MCHB History redirected to CDS."),
     E(<<"M", "K", "O", "L", "H">>, "NSDM_DDL_MKOLH",
       "MKOL History redirected to CDS."),
     E(<<"M", "S", "L", "B", "H">>, "NSDM_DDL_MSLBH",
       "MSLB History redirected to CDS."),
     E(<<"M", "S", "K", "A", "H">>, "NSDM_DDL_MSKAH",
       "MSKA History redirected to CDS."),
     E(<<"M", "S", "S", "A", "H">>, "NSDM_DDL_MSSAH",
       "MSSA History redirected to CDS."),
     E(<<"M", "S", "P", "R", "H">>, "NSDM_DDL_MSPRH",
       "MSPR History redirected to CDS."),
     E(<<"M", "S", "S", "Q", "H">>, "NSDM_DDL_MSSQH",
       "MSSQ History redirected to CDS."),
     E(<<"M", "S", "K", "U", "H">>, "NSDM_DDL_MSKUH",
       "MSKU History redirected to CDS."),
     E(<<"M", "S", "T", "B", "H">>, "NSDM_DDL_MSTBH",
       "MSTB History redirected to CDS."),
     E(<<"M", "S", "T", "E", "H">>, "NSDM_DDL_MSTEH",
       "MSTE History redirected to CDS."),
     E(<<"M", "S", "T", "Q", "H">>, "NSDM_DDL_MSTQH",
       "MSTQ History redirected to CDS."),
     E(<<"M", "C", "S", "D", "H">>, "NSDM_DDL_MCSDH",
       "MCSD History redirected to CDS."),
     E(<<"M", "C", "S", "S", "H">>, "NSDM_DDL_MCSSH",
       "MCSS History redirected to CDS."),
     E(<<"M", "S", "C", "D", "H">>, "NSDM_DDL_MSCDH",
       "MSCD History redirected to CDS."),
     E(<<"M", "S", "F", "D", "H">>, "NSDM_DDL_MSFDH",
       "MSFD History redirected to CDS."),
     E(<<"M", "S", "I", "D", "H">>, "NSDM_DDL_MSIDH",
       "MSID History redirected to CDS."),
     E(<<"M", "S", "R", "D", "H">>, "NSDM_DDL_MSRDH",
       "MSRD History redirected to CDS.")
  >>

\* the groups in the order line 87 merges them
SOURCE_GROUPS == <<CORE_DOC_MAP, HYBRID_MAP, AGGR_MAP, DIMP_MAP, HISTORY_MAP>>

(***************************************************************************)
(* Characters.  TABLE_RE is a str pattern compiled without re.ASCII, so    *)
(* its \b and its IGNORECASE follow Unicode, and str.upper is the full     *)
(* Unicode mapping, which may give more than one character.  A character   *)
(* of ASCII is written as it is; any other character is written in its     *)
(* Python escape: \u and four hexadecimal digits up to U+FFFF, \U and      *)
(* eight beyond, in lower case.  The tables are those of the Unicode       *)
(* database of the Python that runs the code (version 14.0.0).             *)
(***************************************************************************)
ASCII_UPPERCASE ==
  <<"A", "B", "C", "D", "E", "F", "G", "H", "I", "J", "K", "L", "M",
    "N", "O", "P", "Q", "R", "S", "T", "U", "V", "W", "X", "Y", "Z">>

ASCII_LOWERCASE ==
  <<"a", "b", "c", "d", "e", "f", "g", "h", "i", "j", "k", "l", "m",
    "n", "o", "p", "q", "r", "s", "t", "u", "v", "w", "x", "y", "z">>

DIGITS == {"0", "1", "2", "3", "4", "5", "6", "7", "8", "9"}

Range(s) == {s[i] : i \in 1..Len(s)}

HEX_DIGITS == <<"0", "1", "2", "3", "4", "5", "6", "7", "8", "9", "a", "b", "c", "d", "e", "f">>

\* whether c is written as an escape, that is, lies outside ASCII
is_escape(c) ==
  \/ Len(c) = 6 /\ SubSeq(c, 1, 2) = "\\u"
  \/ Len(c) = 10 /\ SubSeq(c, 1, 2) = "\\U"

RECURSIVE hex_value(_, _)
\* the number the first n characters of the hexadecimal numeral h denote
hex_value(h, n) ==
  IF n = 0 THEN 0
  ELSE 16 * hex_value(h, n - 1)
       + (CHOOSE d \in 0..15 : HEX_DIGITS[d + 1] = SubSeq(h, n, n))

\* ord(c) of a character outside ASCII
code_point(c) == hex_value(SubSeq(c, 3, Len(c)), Len(c) - 2)

\* the characters outside ASCII that \w matches: the ranges of their code
\* points in ascending order, seven to a row, each written "first-last "
\* with six hexadecimal digits a code point
WORD_RANGES_HEX ==
  <<
    "0000aa-0000aa 0000b2-0000b3 0000b5-0000b5 0000b9-0000ba 0000bc-0000be 0000c0-0000d6 0000d8-0000f6 ",
    "0000f8-0002c1 0002c6-0002d1 0002e0-0002e4 0002ec-0002ec 0002ee-0002ee 000370-000374 000376-000377 ",
    "00037a-00037d 00037f-00037f 000386-000386 000388-00038a 00038c-00038c 00038e-0003a1 0003a3-0003f5 ",
    "0003f7-000481 00048a-00052f 000531-000556 000559-000559 000560-000588 0005d0-0005ea 0005ef-0005f2 ",
    "000620-00064a 000660-000669 00066e-00066f 000671-0006d3 0006d5-0006d5 0006e5-0006e6 0006ee-0006fc ",
    "0006ff-0006ff 000710-000710 000712-00072f 00074d-0007a5 0007b1-0007b1 0007c0-0007ea 0007f4-0007f5 ",
    "0007fa-0007fa 000800-000815 00081a-00081a 000824-000824 000828-000828 000840-000858 000860-00086a ",
    "000870-000887 000889-00088e 0008a0-0008c9 000904-000939 00093d-00093d 000950-000950 000958-000961 ",
    "000966-00096f 000971-000980 000985-00098c 00098f-000990 000993-0009a8 0009aa-0009b0 0009b2-0009b2 ",
    "0009b6-0009b9 0009bd-0009bd 0009ce-0009ce 0009dc-0009dd 0009df-0009e1 0009e6-0009f1 0009f4-0009f9 ",
    "0009fc-0009fc 000a05-000a0a 000a0f-000a10 000a13-000a28 000a2a-000a30 000a32-000a33 000a35-000a36 ",
    "000a38-000a39 000a59-000a5c 000a5e-000a5e 000a66-000a6f 000a72-000a74 000a85-000a8d 000a8f-000a91 ",
    "000a93-000aa8 000aaa-000ab0 000ab2-000ab3 000ab5-000ab9 000abd-000abd 000ad0-000ad0 000ae0-000ae1 ",
    "000ae6-000aef 000af9-000af9 000b05-000b0c 000b0f-000b10 000b13-000b28 000b2a-000b30 000b32-000b33 ",
    "000b35-000b39 000b3d-000b3d 000b5c-000b5d 000b5f-000b61 000b66-000b6f 000b71-000b77 000b83-000b83 ",
    "000b85-000b8a 000b8e-000b90 000b92-000b95 000b99-000b9a 000b9c-000b9c 000b9e-000b9f 000ba3-000ba4 ",
    "000ba8-000baa 000bae-000bb9 000bd0-000bd0 000be6-000bf2 000c05-000c0c 000c0e-000c10 000c12-000c28 ",
    "000c2a-000c39 000c3d-000c3d 000c58-000c5a 000c5d-000c5d 000c60-000c61 000c66-000c6f 000c78-000c7e ",
    "000c80-000c80 000c85-000c8c 000c8e-000c90 000c92-000ca8 000caa-000cb3 000cb5-000cb9 000cbd-000cbd ",
    "000cdd-000cde 000ce0-000ce1 000ce6-000cef 000cf1-000cf2 000d04-000d0c 000d0e-000d10 000d12-000d3a ",
    "000d3d-000d3d 000d4e-000d4e 000d54-000d56 000d58-000d61 000d66-000d78 000d7a-000d7f 000d85-000d96 ",
    "000d9a-000db1 000db3-000dbb 000dbd-000dbd 000dc0-000dc6 000de6-000def 000e01-000e30 000e32-000e33 ",
    "000e40-000e46 000e50-000e59 000e81-000e82 000e84-000e84 000e86-000e8a 000e8c-000ea3 000ea5-000ea5 ",
    "000ea7-000eb0 000eb2-000eb3 000ebd-000ebd 000ec0-000ec4 000ec6-000ec6 000ed0-000ed9 000edc-000edf ",
    "000f00-000f00 000f20-000f33 000f40-000f47 000f49-000f6c 000f88-000f8c 001000-00102a 00103f-001049 ",
    "001050-001055 00105a-00105d 001061-001061 001065-001066 00106e-001070 001075-001081 00108e-00108e ",
    "001090-001099 0010a0-0010c5 0010c7-0010c7 0010cd-0010cd 0010d0-0010fa 0010fc-001248 00124a-00124d ",
    "001250-001256 001258-001258 00125a-00125d 001260-001288 00128a-00128d 001290-0012b0 0012b2-0012b5 ",
    "0012b8-0012be 0012c0-0012c0 0012c2-0012c5 0012c8-0012d6 0012d8-001310 001312-001315 001318-00135a ",
    "001369-00137c 001380-00138f 0013a0-0013f5 0013f8-0013fd 001401-00166c 00166f-00167f 001681-00169a ",
    "0016a0-0016ea 0016ee-0016f8 001700-001711 00171f-001731 001740-001751 001760-00176c 00176e-001770 ",
    "001780-0017b3 0017d7-0017d7 0017dc-0017dc 0017e0-0017e9 0017f0-0017f9 001810-001819 001820-001878 ",
    "001880-001884 001887-0018a8 0018aa-0018aa 0018b0-0018f5 001900-00191e 001946-00196d 001970-001974 ",
    "001980-0019ab 0019b0-0019c9 0019d0-0019da 001a00-001a16 001a20-001a54 001a80-001a89 001a90-001a99 ",
    "001aa7-001aa7 001b05-001b33 001b45-001b4c 001b50-001b59 001b83-001ba0 001bae-001be5 001c00-001c23 ",
    "001c40-001c49 001c4d-001c7d 001c80-001c88 001c90-001cba 001cbd-001cbf 001ce9-001cec 001cee-001cf3 ",
    "001cf5-001cf6 001cfa-001cfa 001d00-001dbf 001e00-001f15 001f18-001f1d 001f20-001f45 001f48-001f4d ",
    "001f50-001f57 001f59-001f59 001f5b-001f5b 001f5d-001f5d 001f5f-001f7d 001f80-001fb4 001fb6-001fbc ",
    "001fbe-001fbe 001fc2-001fc4 001fc6-001fcc 001fd0-001fd3 001fd6-001fdb 001fe0-001fec 001ff2-001ff4 ",
    "001ff6-001ffc 002070-002071 002074-002079 00207f-002089 002090-00209c 002102-002102 002107-002107 ",
    "00210a-002113 002115-002115 002119-00211d 002124-002124 002126-002126 002128-002128 00212a-00212d ",
    "00212f-002139 00213c-00213f 002145-002149 00214e-00214e 002150-002189 002460-00249b 0024ea-0024ff ",
    "002776-002793 002c00-002ce4 002ceb-002cee 002cf2-002cf3 002cfd-002cfd 002d00-002d25 002d27-002d27 ",
    "002d2d-002d2d 002d30-002d67 002d6f-002d6f 002d80-002d96 002da0-002da6 002da8-002dae 002db0-002db6 ",
    "002db8-002dbe 002dc0-002dc6 002dc8-002dce 002dd0-002dd6 002dd8-002dde 002e2f-002e2f 003005-003007 ",
    "003021-003029 003031-003035 003038-00303c 003041-003096 00309d-00309f 0030a1-0030fa 0030fc-0030ff ",
    "003105-00312f 003131-00318e 003192-003195 0031a0-0031bf 0031f0-0031ff 003220-003229 003248-00324f ",
    "003251-00325f 003280-003289 0032b1-0032bf 003400-004dbf 004e00-00a48c 00a4d0-00a4fd 00a500-00a60c ",
    "00a610-00a62b 00a640-00a66e 00a67f-00a69d 00a6a0-00a6ef 00a717-00a71f 00a722-00a788 00a78b-00a7ca ",
    "00a7d0-00a7d1 00a7d3-00a7d3 00a7d5-00a7d9 00a7f2-00a801 00a803-00a805 00a807-00a80a 00a80c-00a822 ",
    "00a830-00a835 00a840-00a873 00a882-00a8b3 00a8d0-00a8d9 00a8f2-00a8f7 00a8fb-00a8fb 00a8fd-00a8fe ",
    "00a900-00a925 00a930-00a946 00a960-00a97c 00a984-00a9b2 00a9cf-00a9d9 00a9e0-00a9e4 00a9e6-00a9fe ",
    "00aa00-00aa28 00aa40-00aa42 00aa44-00aa4b 00aa50-00aa59 00aa60-00aa76 00aa7a-00aa7a 00aa7e-00aaaf ",
    "00aab1-00aab1 00aab5-00aab6 00aab9-00aabd 00aac0-00aac0 00aac2-00aac2 00aadb-00aadd 00aae0-00aaea ",
    "00aaf2-00aaf4 00ab01-00ab06 00ab09-00ab0e 00ab11-00ab16 00ab20-00ab26 00ab28-00ab2e 00ab30-00ab5a ",
    "00ab5c-00ab69 00ab70-00abe2 00abf0-00abf9 00ac00-00d7a3 00d7b0-00d7c6 00d7cb-00d7fb 00f900-00fa6d ",
    "00fa70-00fad9 00fb00-00fb06 00fb13-00fb17 00fb1d-00fb1d 00fb1f-00fb28 00fb2a-00fb36 00fb38-00fb3c ",
    "00fb3e-00fb3e 00fb40-00fb41 00fb43-00fb44 00fb46-00fbb1 00fbd3-00fd3d 00fd50-00fd8f 00fd92-00fdc7 ",
    "00fdf0-00fdfb 00fe70-00fe74 00fe76-00fefc 00ff10-00ff19 00ff21-00ff3a 00ff41-00ff5a 00ff66-00ffbe ",
    "00ffc2-00ffc7 00ffca-00ffcf 00ffd2-00ffd7 00ffda-00ffdc 010000-01000b 01000d-010026 010028-01003a ",
    "01003c-01003d 01003f-01004d 010050-01005d 010080-0100fa 010107-010133 010140-010178 01018a-01018b ",
    "010280-01029c 0102a0-0102d0 0102e1-0102fb 010300-010323 01032d-01034a 010350-010375 010380-01039d ",
    "0103a0-0103c3 0103c8-0103cf 0103d1-0103d5 010400-01049d 0104a0-0104a9 0104b0-0104d3 0104d8-0104fb ",
    "010500-010527 010530-010563 010570-01057a 01057c-01058a 01058c-010592 010594-010595 010597-0105a1 ",
    "0105a3-0105b1 0105b3-0105b9 0105bb-0105bc 010600-010736 010740-010755 010760-010767 010780-010785 ",
    "010787-0107b0 0107b2-0107ba 010800-010805 010808-010808 01080a-010835 010837-010838 01083c-01083c ",
    "01083f-010855 010858-010876 010879-01089e 0108a7-0108af 0108e0-0108f2 0108f4-0108f5 0108fb-01091b ",
    "010920-010939 010980-0109b7 0109bc-0109cf 0109d2-010a00 010a10-010a13 010a15-010a17 010a19-010a35 ",
    "010a40-010a48 010a60-010a7e 010a80-010a9f 010ac0-010ac7 010ac9-010ae4 010aeb-010aef 010b00-010b35 ",
    "010b40-010b55 010b58-010b72 010b78-010b91 010ba9-010baf 010c00-010c48 010c80-010cb2 010cc0-010cf2 ",
    "010cfa-010d23 010d30-010d39 010e60-010e7e 010e80-010ea9 010eb0-010eb1 010f00-010f27 010f30-010f45 ",
    "010f51-010f54 010f70-010f81 010fb0-010fcb 010fe0-010ff6 011003-011037 011052-01106f 011071-011072 ",
    "011075-011075 011083-0110af 0110d0-0110e8 0110f0-0110f9 011103-011126 011136-01113f 011144-011144 ",
    "011147-011147 011150-011172 011176-011176 011183-0111b2 0111c1-0111c4 0111d0-0111da 0111dc-0111dc ",
    "0111e1-0111f4 011200-011211 011213-01122b 011280-011286 011288-011288 01128a-01128d 01128f-01129d ",
    "01129f-0112a8 0112b0-0112de 0112f0-0112f9 011305-01130c 01130f-011310 011313-011328 01132a-011330 ",
    "011332-011333 011335-011339 01133d-01133d 011350-011350 01135d-011361 011400-011434 011447-01144a ",
    "011450-011459 01145f-011461 011480-0114af 0114c4-0114c5 0114c7-0114c7 0114d0-0114d9 011580-0115ae ",
    "0115d8-0115db 011600-01162f 011644-011644 011650-011659 011680-0116aa 0116b8-0116b8 0116c0-0116c9 ",
    "011700-01171a 011730-01173b 011740-011746 011800-01182b 0118a0-0118f2 0118ff-011906 011909-011909 ",
    "01190c-011913 011915-011916 011918-01192f 01193f-01193f 011941-011941 011950-011959 0119a0-0119a7 ",
    "0119aa-0119d0 0119e1-0119e1 0119e3-0119e3 011a00-011a00 011a0b-011a32 011a3a-011a3a 011a50-011a50 ",
    "011a5c-011a89 011a9d-011a9d 011ab0-011af8 011c00-011c08 011c0a-011c2e 011c40-011c40 011c50-011c6c ",
    "011c72-011c8f 011d00-011d06 011d08-011d09 011d0b-011d30 011d46-011d46 011d50-011d59 011d60-011d65 ",
    "011d67-011d68 011d6a-011d89 011d98-011d98 011da0-011da9 011ee0-011ef2 011fb0-011fb0 011fc0-011fd4 ",
    "012000-012399 012400-01246e 012480-012543 012f90-012ff0 013000-01342e 014400-014646 016800-016a38 ",
    "016a40-016a5e 016a60-016a69 016a70-016abe 016ac0-016ac9 016ad0-016aed 016b00-016b2f 016b40-016b43 ",
    "016b50-016b59 016b5b-016b61 016b63-016b77 016b7d-016b8f 016e40-016e96 016f00-016f4a 016f50-016f50 ",
    "016f93-016f9f 016fe0-016fe1 016fe3-016fe3 017000-0187f7 018800-018cd5 018d00-018d08 01aff0-01aff3 ",
    "01aff5-01affb 01affd-01affe 01b000-01b122 01b150-01b152 01b164-01b167 01b170-01b2fb 01bc00-01bc6a ",
    "01bc70-01bc7c 01bc80-01bc88 01bc90-01bc99 01d2e0-01d2f3 01d360-01d378 01d400-01d454 01d456-01d49c ",
    "01d49e-01d49f 01d4a2-01d4a2 01d4a5-01d4a6 01d4a9-01d4ac 01d4ae-01d4b9 01d4bb-01d4bb 01d4bd-01d4c3 ",
    "01d4c5-01d505 01d507-01d50a 01d50d-01d514 01d516-01d51c 01d51e-01d539 01d53b-01d53e 01d540-01d544 ",
    "01d546-01d546 01d54a-01d550 01d552-01d6a5 01d6a8-01d6c0 01d6c2-01d6da 01d6dc-01d6fa 01d6fc-01d714 ",
    "01d716-01d734 01d736-01d74e 01d750-01d76e 01d770-01d788 01d78a-01d7a8 01d7aa-01d7c2 01d7c4-01d7cb ",
    "01d7ce-01d7ff 01df00-01df1e 01e100-01e12c 01e137-01e13d 01e140-01e149 01e14e-01e14e 01e290-01e2ad ",
    "01e2c0-01e2eb 01e2f0-01e2f9 01e7e0-01e7e6 01e7e8-01e7eb 01e7ed-01e7ee 01e7f0-01e7fe 01e800-01e8c4 ",
    "01e8c7-01e8cf 01e900-01e943 01e94b-01e94b 01e950-01e959 01ec71-01ecab 01ecad-01ecaf 01ecb1-01ecb4 ",
    "01ed01-01ed2d 01ed2f-01ed3d 01ee00-01ee03 01ee05-01ee1f 01ee21-01ee22 01ee24-01ee24 01ee27-01ee27 ",
    "01ee29-01ee32 01ee34-01ee37 01ee39-01ee39 01ee3b-01ee3b 01ee42-01ee42 01ee47-01ee47 01ee49-01ee49 ",
    "01ee4b-01ee4b 01ee4d-01ee4f 01ee51-01ee52 01ee54-01ee54 01ee57-01ee57 01ee59-01ee59 01ee5b-01ee5b ",
    "01ee5d-01ee5d 01ee5f-01ee5f 01ee61-01ee62 01ee64-01ee64 01ee67-01ee6a 01ee6c-01ee72 01ee74-01ee77 ",
    "01ee79-01ee7c 01ee7e-01ee7e 01ee80-01ee89 01ee8b-01ee9b 01eea1-01eea3 01eea5-01eea9 01eeab-01eebb ",
    "01f100-01f10c 01fbf0-01fbf9 020000-02a6df 02a700-02b738 02b740-02b81d 02b820-02cea1 02ceb0-02ebe0 ",
    "02f800-02fa1d 030000-03134a "
  >>

\* the i-th range of WORD_RANGES_HEX as <<first, last>>
word_range(i) ==
  LET j == (i - 1) % 7
      r == SubSeq(WORD_RANGES_HEX[(i - 1) \div 7 + 1], 14 * j + 1, 14 * j + 14)
  IN  <<hex_value(SubSeq(r, 1, 6), 6), hex_value(SubSeq(r, 8, 13), 6)>>

\* the code points outside ASCII of the characters \w matches, in ranges
\* <<first, last>> in ascending order
WORD_RANGES ==
  LET rows == Len(WORD_RANGES_HEX)
      n    == 7 * (rows - 1) + Len(WORD_RANGES_HEX[rows]) \div 14
  IN  [i \in 1..n |-> word_range(i)] \o <<>>

\* the characters of ASCII \w matches: alphanumeric or underscore
ASCII_WORD_CHARS ==
  Range(ASCII_UPPERCASE) \cup Range(ASCII_LOWERCASE) \cup DIGITS \cup {"_"}

RECURSIVE word_range_of(_, _, _)
\* the index, among the ranges lo..hi of WORD_RANGES, of the one that holds
\* the code point n, or 0 (binary search)
word_range_of(n, lo, hi) ==
  IF lo > hi THEN 0
  ELSE LET mid == (lo + hi) \div 2
       IN  IF n < WORD_RANGES[mid][1] THEN word_range_of(n, lo, mid - 1)
           ELSE IF n > WORD_RANGES[mid][2] THEN word_range_of(n, mid + 1, hi)
           ELSE mid

\* \w: alphanumeric, in the sense of Unicode, or underscore
is_word_char(c) ==
  \/ c \in ASCII_WORD_CHARS
  \/ is_escape(c) /\ word_range_of(code_point(c), 1, Len(WORD_RANGES)) > 0

\* the characters outside ASCII that str.upper() changes, in ascending
\* order, four to a row, each written "c:u1,u2,u3 ": the code point of the
\* character and those of the characters of its upper case, six hexadecimal
\* digits a code point and ...... where the upper case has no further
\* character
UPPER_CASES_HEX ==
  <<
    "0000b5:00039c,......,...... 0000df:000053,000053,...... 0000e0:0000c0,......,...... 0000e1:0000c1,......,...... ",
    "0000e2:0000c2,......,...... 0000e3:0000c3,......,...... 0000e4:0000c4,......,...... 0000e5:0000c5,......,...... ",
    "0000e6:0000c6,......,...... 0000e7:0000c7,......,...... 0000e8:0000c8,......,...... 0000e9:0000c9,......,...... ",
    "0000ea:0000ca,......,...... 0000eb:0000cb,......,...... 0000ec:0000cc,......,...... 0000ed:0000cd,......,...... ",
    "0000ee:0000ce,......,...... 0000ef:0000cf,......,...... 0000f0:0000d0,......,...... 0000f1:0000d1,......,...... ",
    "0000f2:0000d2,......,...... 0000f3:0000d3,......,...... 0000f4:0000d4,......,...... 0000f5:0000d5,......,...... ",
    "0000f6:0000d6,......,...... 0000f8:0000d8,......,...... 0000f9:0000d9,......,...... 0000fa:0000da,......,...... ",
    "0000fb:0000db,......,...... 0000fc:0000dc,......,...... 0000fd:0000dd,......,...... 0000fe:0000de,......,...... ",
    "0000ff:000178,......,...... 000101:000100,......,...... 000103:000102,......,...... 000105:000104,......,...... ",
    "000107:000106,......,...... 000109:000108,......,...... 00010b:00010a,......,...... 00010d:00010c,......,...... ",
    "00010f:00010e,......,...... 000111:000110,......,...... 000113:000112,......,...... 000115:000114,......,...... ",
    "000117:000116,......,...... 000119:000118,......,...... 00011b:00011a,......,...... 00011d:00011c,......,...... ",
    "00011f:00011e,......,...... 000121:000120,......,...... 000123:000122,......,...... 000125:000124,......,...... ",
    "000127:000126,......,...... 000129:000128,......,...... 00012b:00012a,......,...... 00012d:00012c,......,...... ",
    "00012f:00012e,......,...... 000131:000049,......,...... 000133:000132,......,...... 000135:000134,......,...... ",
    "000137:000136,......,...... 00013a:000139,......,...... 00013c:00013b,......,...... 00013e:00013d,......,...... ",
    "000140:00013f,......,...... 000142:000141,......,...... 000144:000143,......,...... 000146:000145,......,...... ",
    "000148:000147,......,...... 000149:0002bc,00004e,...... 00014b:00014a,......,...... 00014d:00014c,......,...... ",
    "00014f:00014e,......,...... 000151:000150,......,...... 000153:000152,......,...... 000155:000154,......,...... ",
    "000157:000156,......,...... 000159:000158,......,...... 00015b:00015a,......,...... 00015d:00015c,......,...... ",
    "00015f:00015e,......,...... 000161:000160,......,...... 000163:000162,......,...... 000165:000164,......,...... ",
    "000167:000166,......,...... 000169:000168,......,...... 00016b:00016a,......,...... 00016d:00016c,......,...... ",
    "00016f:00016e,......,...... 000171:000170,......,...... 000173:000172,......,...... 000175:000174,......,...... ",
    "000177:000176,......,...... 00017a:000179,......,...... 00017c:00017b,......,...... 00017e:00017d,......,...... ",
    "00017f:000053,......,...... 000180:000243,......,...... 000183:000182,......,...... 000185:000184,......,...... ",
    "000188:000187,......,...... 00018c:00018b,......,...... 000192:000191,......,...... 000195:0001f6,......,...... ",
    "000199:000198,......,...... 00019a:00023d,......,...... 00019e:000220,......,...... 0001a1:0001a0,......,...... ",
    "0001a3:0001a2,......,...... 0001a5:0001a4,......,...... 0001a8:0001a7,......,...... 0001ad:0001ac,......,...... ",
    "0001b0:0001af,......,...... 0001b4:0001b3,......,...... 0001b6:0001b5,......,...... 0001b9:0001b8,......,...... ",
    "0001bd:0001bc,......,...... 0001bf:0001f7,......,...... 0001c5:0001c4,......,...... 0001c6:0001c4,......,...... ",
    "0001c8:0001c7,......,...... 0001c9:0001c7,......,...... 0001cb:0001ca,......,...... 0001cc:0001ca,......,...... ",
    "0001ce:0001cd,......,...... 0001d0:0001cf,......,...... 0001d2:0001d1,......,...... 0001d4:0001d3,......,...... ",
    "0001d6:0001d5,......,...... 0001d8:0001d7,......,...... 0001da:0001d9,......,...... 0001dc:0001db,......,...... ",
    "0001dd:00018e,......,...... 0001df:0001de,......,...... 0001e1:0001e0,......,...... 0001e3:0001e2,......,...... ",
    "0001e5:0001e4,......,...... 0001e7:0001e6,......,...... 0001e9:0001e8,......,...... 0001eb:0001ea,......,...... ",
    "0001ed:0001ec,......,...... 0001ef:0001ee,......,...... 0001f0:00004a,00030c,...... 0001f2:0001f1,......,...... ",
    "0001f3:0001f1,......,...... 0001f5:0001f4,......,...... 0001f9:0001f8,......,...... 0001fb:0001fa,......,...... ",
    "0001fd:0001fc,......,...... 0001ff:0001fe,......,...... 000201:000200,......,...... 000203:000202,......,...... ",
    "000205:000204,......,...... 000207:000206,......,...... 000209:000208,......,...... 00020b:00020a,......,...... ",
    "00020d:00020c,......,...... 00020f:00020e,......,...... 000211:000210,......,...... 000213:000212,......,...... ",
    "000215:000214,......,...... 000217:000216,......,...... 000219:000218,......,...... 00021b:00021a,......,...... ",
    "00021d:00021c,......,...... 00021f:00021e,......,...... 000223:000222,......,...... 000225:000224,......,...... ",
    "000227:000226,......,...... 000229:000228,......,...... 00022b:00022a,......,...... 00022d:00022c,......,...... ",
    "00022f:00022e,......,...... 000231:000230,......,...... 000233:000232,......,...... 00023c:00023b,......,...... ",
    "00023f:002c7e,......,...... 000240:002c7f,......,...... 000242:000241,......,...... 000247:000246,......,...... ",
    "000249:000248,......,...... 00024b:00024a,......,...... 00024d:00024c,......,...... 00024f:00024e,......,...... ",
    "000250:002c6f,......,...... 000251:002c6d,......,...... 000252:002c70,......,...... 000253:000181,......,...... ",
    "000254:000186,......,...... 000256:000189,......,...... 000257:00018a,......,...... 000259:00018f,......,...... ",
    "00025b:000190,......,...... 00025c:00a7ab,......,...... 000260:000193,......,...... 000261:00a7ac,......,...... ",
    "000263:000194,......,...... 000265:00a78d,......,...... 000266:00a7aa,......,...... 000268:000197,......,...... ",
    "000269:000196,......,...... 00026a:00a7ae,......,...... 00026b:002c62,......,...... 00026c:00a7ad,......,...... ",
    "00026f:00019c,......,...... 000271:002c6e,......,...... 000272:00019d,......,...... 000275:00019f,......,...... ",
    "00027d:002c64,......,...... 000280:0001a6,......,...... 000282:00a7c5,......,...... 000283:0001a9,......,...... ",
    "000287:00a7b1,......,...... 000288:0001ae,......,...... 000289:000244,......,...... 00028a:0001b1,......,...... ",
    "00028b:0001b2,......,...... 00028c:000245,......,...... 000292:0001b7,......,...... 00029d:00a7b2,......,...... ",
    "00029e:00a7b0,......,...... 000345:000399,......,...... 000371:000370,......,...... 000373:000372,......,...... ",
    "000377:000376,......,...... 00037b:0003fd,......,...... 00037c:0003fe,......,...... 00037d:0003ff,......,...... ",
    "000390:000399,000308,000301 0003ac:000386,......,...... 0003ad:000388,......,...... 0003ae:000389,......,...... ",
    "0003af:00038a,......,...... 0003b0:0003a5,000308,000301 0003b1:000391,......,...... 0003b2:000392,......,...... ",
    "0003b3:000393,......,...... 0003b4:000394,......,...... 0003b5:000395,......,...... 0003b6:000396,......,...... ",
    "0003b7:000397,......,...... 0003b8:000398,......,...... 0003b9:000399,......,...... 0003ba:00039a,......,...... ",
    "0003bb:00039b,......,...... 0003bc:00039c,......,...... 0003bd:00039d,......,...... 0003be:00039e,......,...... ",
    "0003bf:00039f,......,...... 0003c0:0003a0,......,...... 0003c1:0003a1,......,...... 0003c2:0003a3,......,...... ",
    "0003c3:0003a3,......,...... 0003c4:0003a4,......,...... 0003c5:0003a5,......,...... 0003c6:0003a6,......,...... ",
    "0003c7:0003a7,......,...... 0003c8:0003a8,......,...... 0003c9:0003a9,......,...... 0003ca:0003aa,......,...... ",
    "0003cb:0003ab,......,...... 0003cc:00038c,......,...... 0003cd:00038e,......,...... 0003ce:00038f,......,...... ",
    "0003d0:000392,......,...... 0003d1:000398,......,...... 0003d5:0003a6,......,...... 0003d6:0003a0,......,...... ",
    "0003d7:0003cf,......,...... 0003d9:0003d8,......,...... 0003db:0003da,......,...... 0003dd:0003dc,......,...... ",
    "0003df:0003de,......,...... 0003e1:0003e0,......,...... 0003e3:0003e2,......,...... 0003e5:0003e4,......,...... ",
    "0003e7:0003e6,......,...... 0003e9:0003e8,......,...... 0003eb:0003ea,......,...... 0003ed:0003ec,......,...... ",
    "0003ef:0003ee,......,...... 0003f0:00039a,......,...... 0003f1:0003a1,......,...... 0003f2:0003f9,......,...... ",
    "0003f3:00037f,......,...... 0003f5:000395,......,...... 0003f8:0003f7,......,...... 0003fb:0003fa,......,...... ",
    "000430:000410,......,...... 000431:000411,......,...... 000432:000412,......,...... 000433:000413,......,...... ",
    "000434:000414,......,...... 000435:000415,......,...... 000436:000416,......,...... 000437:000417,......,...... ",
    "000438:000418,......,...... 000439:000419,......,...... 00043a:00041a,......,...... 00043b:00041b,......,...... ",
    "00043c:00041c,......,...... 00043d:00041d,......,...... 00043e:00041e,......,...... 00043f:00041f,......,...... ",
    "000440:000420,......,...... 000441:000421,......,...... 000442:000422,......,...... 000443:000423,......,...... ",
    "000444:000424,......,...... 000445:000425,......,...... 000446:000426,......,...... 000447:000427,......,...... ",
    "000448:000428,......,...... 000449:000429,......,...... 00044a:00042a,......,...... 00044b:00042b,......,...... ",
    "00044c:00042c,......,...... 00044d:00042d,......,...... 00044e:00042e,......,...... 00044f:00042f,......,...... ",
    "000450:000400,......,...... 000451:000401,......,...... 000452:000402,......,...... 000453:000403,......,...... ",
    "000454:000404,......,...... 000455:000405,......,...... 000456:000406,......,...... 000457:000407,......,...... ",
    "000458:000408,......,...... 000459:000409,......,...... 00045a:00040a,......,...... 00045b:00040b,......,...... ",
    "00045c:00040c,......,...... 00045d:00040d,......,...... 00045e:00040e,......,...... 00045f:00040f,......,...... ",
    "000461:000460,......,...... 000463:000462,......,...... 000465:000464,......,...... 000467:000466,......,...... ",
    "000469:000468,......,...... 00046b:00046a,......,...... 00046d:00046c,......,...... 00046f:00046e,......,...... ",
    "000471:000470,......,...... 000473:000472,......,...... 000475:000474,......,...... 000477:000476,......,...... ",
    "000479:000478,......,...... 00047b:00047a,......,...... 00047d:00047c,......,...... 00047f:00047e,......,...... ",
    "000481:000480,......,...... 00048b:00048a,......,...... 00048d:00048c,......,...... 00048f:00048e,......,...... ",
    "000491:000490,......,...... 000493:000492,......,...... 000495:000494,......,...... 000497:000496,......,...... ",
    "000499:000498,......,...... 00049b:00049a,......,...... 00049d:00049c,......,...... 00049f:00049e,......,...... ",
    "0004a1:0004a0,......,...... 0004a3:0004a2,......,...... 0004a5:0004a4,......,...... 0004a7:0004a6,......,...... ",
    "0004a9:0004a8,......,...... 0004ab:0004aa,......,...... 0004ad:0004ac,......,...... 0004af:0004ae,......,...... ",
    "0004b1:0004b0,......,...... 0004b3:0004b2,......,...... 0004b5:0004b4,......,...... 0004b7:0004b6,......,...... ",
    "0004b9:0004b8,......,...... 0004bb:0004ba,......,...... 0004bd:0004bc,......,...... 0004bf:0004be,......,...... ",
    "0004c2:0004c1,......,...... 0004c4:0004c3,......,...... 0004c6:0004c5,......,...... 0004c8:0004c7,......,...... ",
    "0004ca:0004c9,......,...... 0004cc:0004cb,......,...... 0004ce:0004cd,......,...... 0004cf:0004c0,......,...... ",
    "0004d1:0004d0,......,...... 0004d3:0004d2,......,...... 0004d5:0004d4,......,...... 0004d7:0004d6,......,...... ",
    "0004d9:0004d8,......,...... 0004db:0004da,......,...... 0004dd:0004dc,......,...... 0004df:0004de,......,...... ",
    "0004e1:0004e0,......,...... 0004e3:0004e2,......,...... 0004e5:0004e4,......,...... 0004e7:0004e6,......,...... ",
    "0004e9:0004e8,......,...... 0004eb:0004ea,......,...... 0004ed:0004ec,......,...... 0004ef:0004ee,......,...... ",
    "0004f1:0004f0,......,...... 0004f3:0004f2,......,...... 0004f5:0004f4,......,...... 0004f7:0004f6,......,...... ",
    "0004f9:0004f8,......,...... 0004fb:0004fa,......,...... 0004fd:0004fc,......,...... 0004ff:0004fe,......,...... ",
    "000501:000500,......,...... 000503:000502,......,...... 000505:000504,......,...... 000507:000506,......,...... ",
    "000509:000508,......,...... 00050b:00050a,......,...... 00050d:00050c,......,...... 00050f:00050e,......,...... ",
    "000511:000510,......,...... 000513:000512,......,...... 000515:000514,......,...... 000517:000516,......,...... ",
    "000519:000518,......,...... 00051b:00051a,......,...... 00051d:00051c,......,...... 00051f:00051e,......,...... ",
    "000521:000520,......,...... 000523:000522,......,...... 000525:000524,......,...... 000527:000526,......,...... ",
    "000529:000528,......,...... 00052b:00052a,......,...... 00052d:00052c,......,...... 00052f:00052e,......,...... ",
    "000561:000531,......,...... 000562:000532,......,...... 000563:000533,......,...... 000564:000534,......,...... ",
    "000565:000535,......,...... 000566:000536,......,...... 000567:000537,......,...... 000568:000538,......,...... ",
    "000569:000539,......,...... 00056a:00053a,......,...... 00056b:00053b,......,...... 00056c:00053c,......,...... ",
    "00056d:00053d,......,...... 00056e:00053e,......,...... 00056f:00053f,......,...... 000570:000540,......,...... ",
    "000571:000541,......,...... 000572:000542,......,...... 000573:000543,......,...... 000574:000544,......,...... ",
    "000575:000545,......,...... 000576:000546,......,...... 000577:000547,......,...... 000578:000548,......,...... ",
    "000579:000549,......,...... 00057a:00054a,......,...... 00057b:00054b,......,...... 00057c:00054c,......,...... ",
    "00057d:00054d,......,...... 00057e:00054e,......,...... 00057f:00054f,......,...... 000580:000550,......,...... ",
    "000581:000551,......,...... 000582:000552,......,...... 000583:000553,......,...... 000584:000554,......,...... ",
    "000585:000555,......,...... 000586:000556,......,...... 000587:000535,000552,...... 0010d0:001c90,......,...... ",
    "0010d1:001c91,......,...... 0010d2:001c92,......,...... 0010d3:001c93,......,...... 0010d4:001c94,......,...... ",
    "0010d5:001c95,......,...... 0010d6:001c96,......,...... 0010d7:001c97,......,...... 0010d8:001c98,......,...... ",
    "0010d9:001c99,......,...... 0010da:001c9a,......,...... 0010db:001c9b,......,...... 0010dc:001c9c,......,...... ",
    "0010dd:001c9d,......,...... 0010de:001c9e,......,...... 0010df:001c9f,......,...... 0010e0:001ca0,......,...... ",
    "0010e1:001ca1,......,...... 0010e2:001ca2,......,...... 0010e3:001ca3,......,...... 0010e4:001ca4,......,...... ",
    "0010e5:001ca5,......,...... 0010e6:001ca6,......,...... 0010e7:001ca7,......,...... 0010e8:001ca8,......,...... ",
    "0010e9:001ca9,......,...... 0010ea:001caa,......,...... 0010eb:001cab,......,...... 0010ec:001cac,......,...... ",
    "0010ed:001cad,......,...... 0010ee:001cae,......,...... 0010ef:001caf,......,...... 0010f0:001cb0,......,...... ",
    "0010f1:001cb1,......,...... 0010f2:001cb2,......,...... 0010f3:001cb3,......,...... 0010f4:001cb4,......,...... ",
    "0010f5:001cb5,......,...... 0010f6:001cb6,......,...... 0010f7:001cb7,......,...... 0010f8:001cb8,......,...... ",
    "0010f9:001cb9,......,...... 0010fa:001cba,......,...... 0010fd:001cbd,......,...... 0010fe:001cbe,......,...... ",
    "0010ff:001cbf,......,...... 0013f8:0013f0,......,...... 0013f9:0013f1,......,...... 0013fa:0013f2,......,...... ",
    "0013fb:0013f3,......,...... 0013fc:0013f4,......,...... 0013fd:0013f5,......,...... 001c80:000412,......,...... ",
    "001c81:000414,......,...... 001c82:00041e,......,...... 001c83:000421,......,...... 001c84:000422,......,...... ",
    "001c85:000422,......,...... 001c86:00042a,......,...... 001c87:000462,......,...... 001c88:00a64a,......,...... ",
    "001d79:00a77d,......,...... 001d7d:002c63,......,...... 001d8e:00a7c6,......,...... 001e01:001e00,......,...... ",
    "001e03:001e02,......,...... 001e05:001e04,......,...... 001e07:001e06,......,...... 001e09:001e08,......,...... ",
    "001e0b:001e0a,......,...... 001e0d:001e0c,......,...... 001e0f:001e0e,......,...... 001e11:001e10,......,...... ",
    "001e13:001e12,......,...... 001e15:001e14,......,...... 001e17:001e16,......,...... 001e19:001e18,......,...... ",
    "001e1b:001e1a,......,...... 001e1d:001e1c,......,...... 001e1f:001e1e,......,...... 001e21:001e20,......,...... ",
    "001e23:001e22,......,...... 001e25:001e24,......,...... 001e27:001e26,......,...... 001e29:001e28,......,...... ",
    "001e2b:001e2a,......,...... 001e2d:001e2c,......,...... 001e2f:001e2e,......,...... 001e31:001e30,......,...... ",
    "001e33:001e32,......,...... 001e35:001e34,......,...... 001e37:001e36,......,...... 001e39:001e38,......,...... ",
    "001e3b:001e3a,......,...... 001e3d:001e3c,......,...... 001e3f:001e3e,......,...... 001e41:001e40,......,...... ",
    "001e43:001e42,......,...... 001e45:001e44,......,...... 001e47:001e46,......,...... 001e49:001e48,......,...... ",
    "001e4b:001e4a,......,...... 001e4d:001e4c,......,...... 001e4f:001e4e,......,...... 001e51:001e50,......,...... ",
    "001e53:001e52,......,...... 001e55:001e54,......,...... 001e57:001e56,......,...... 001e59:001e58,......,...... ",
    "001e5b:001e5a,......,...... 001e5d:001e5c,......,...... 001e5f:001e5e,......,...... 001e61:001e60,......,...... ",
    "001e63:001e62,......,...... 001e65:001e64,......,...... 001e67:001e66,......,...... 001e69:001e68,......,...... ",
    "001e6b:001e6a,......,...... 001e6d:001e6c,......,...... 001e6f:001e6e,......,...... 001e71:001e70,......,...... ",
    "001e73:001e72,......,...... 001e75:001e74,......,...... 001e77:001e76,......,...... 001e79:001e78,......,...... ",
    "001e7b:001e7a,......,...... 001e7d:001e7c,......,...... 001e7f:001e7e,......,...... 001e81:001e80,......,...... ",
    "001e83:001e82,......,...... 001e85:001e84,......,...... 001e87:001e86,......,...... 001e89:001e88,......,...... ",
    "001e8b:001e8a,......,...... 001e8d:001e8c,......,...... 001e8f:001e8e,......,...... 001e91:001e90,......,...... ",
    "001e93:001e92,......,...... 001e95:001e94,......,...... 001e96:000048,000331,...... 001e97:000054,000308,...... ",
    "001e98:000057,00030a,...... 001e99:000059,00030a,...... 001e9a:000041,0002be,...... 001e9b:001e60,......,...... ",
    "001ea1:001ea0,......,...... 001ea3:001ea2,......,...... 001ea5:001ea4,......,...... 001ea7:001ea6,......,...... ",
    "001ea9:001ea8,......,...... 001eab:001eaa,......,...... 001ead:001eac,......,...... 001eaf:001eae,......,...... ",
    "001eb1:001eb0,......,...... 001eb3:001eb2,......,...... 001eb5:001eb4,......,...... 001eb7:001eb6,......,...... ",
    "001eb9:001eb8,......,...... 001ebb:001eba,......,...... 001ebd:001ebc,......,...... 001ebf:001ebe,......,...... ",
    "001ec1:001ec0,......,...... 001ec3:001ec2,......,...... 001ec5:001ec4,......,...... 001ec7:001ec6,......,...... ",
    "001ec9:001ec8,......,...... 001ecb:001eca,......,...... 001ecd:001ecc,......,...... 001ecf:001ece,......,...... ",
    "001ed1:001ed0,......,...... 001ed3:001ed2,......,...... 001ed5:001ed4,......,...... 001ed7:001ed6,......,...... ",
    "001ed9:001ed8,......,...... 001edb:001eda,......,...... 001edd:001edc,......,...... 001edf:001ede,......,...... ",
    "001ee1:001ee0,......,...... 001ee3:001ee2,......,...... 001ee5:001ee4,......,...... 001ee7:001ee6,......,...... ",
    "001ee9:001ee8,......,...... 001eeb:001eea,......,...... 001eed:001eec,......,...... 001eef:001eee,......,...... ",
    "001ef1:001ef0,......,...... 001ef3:001ef2,......,...... 001ef5:001ef4,......,...... 001ef7:001ef6,......,...... ",
    "001ef9:001ef8,......,...... 001efb:001efa,......,...... 001efd:001efc,......,...... 001eff:001efe,......,...... ",
    "001f00:001f08,......,...... 001f01:001f09,......,...... 001f02:001f0a,......,...... 001f03:001f0b,......,...... ",
    "001f04:001f0c,......,...... 001f05:001f0d,......,...... 001f06:001f0e,......,...... 001f07:001f0f,......,...... ",
    "001f10:001f18,......,...... 001f11:001f19,......,...... 001f12:001f1a,......,...... 001f13:001f1b,......,...... ",
    "001f14:001f1c,......,...... 001f15:001f1d,......,...... 001f20:001f28,......,...... 001f21:001f29,......,...... ",
    "001f22:001f2a,......,...... 001f23:001f2b,......,...... 001f24:001f2c,......,...... 001f25:001f2d,......,...... ",
    "001f26:001f2e,......,...... 001f27:001f2f,......,...... 001f30:001f38,......,...... 001f31:001f39,......,...... ",
    "001f32:001f3a,......,...... 001f33:001f3b,......,...... 001f34:001f3c,......,...... 001f35:001f3d,......,...... ",
    "001f36:001f3e,......,...... 001f37:001f3f,......,...... 001f40:001f48,......,...... 001f41:001f49,......,...... ",
    "001f42:001f4a,......,...... 001f43:001f4b,......,...... 001f44:001f4c,......,...... 001f45:001f4d,......,...... ",
    "001f50:0003a5,000313,...... 001f51:001f59,......,...... 001f52:0003a5,000313,000300 001f53:001f5b,......,...... ",
    "001f54:0003a5,000313,000301 001f55:001f5d,......,...... 001f56:0003a5,000313,000342 001f57:001f5f,......,...... ",
    "001f60:001f68,......,...... 001f61:001f69,......,...... 001f62:001f6a,......,...... 001f63:001f6b,......,...... ",
    "001f64:001f6c,......,...... 001f65:001f6d,......,...... 001f66:001f6e,......,...... 001f67:001f6f,......,...... ",
    "001f70:001fba,......,...... 001f71:001fbb,......,...... 001f72:001fc8,......,...... 001f73:001fc9,......,...... ",
    "001f74:001fca,......,...... 001f75:001fcb,......,...... 001f76:001fda,......,...... 001f77:001fdb,......,...... ",
    "001f78:001ff8,......,...... 001f79:001ff9,......,...... 001f7a:001fea,......,...... 001f7b:001feb,......,...... ",
    "001f7c:001ffa,......,...... 001f7d:001ffb,......,...... 001f80:001f08,000399,...... 001f81:001f09,000399,...... ",
    "001f82:001f0a,000399,...... 001f83:001f0b,000399,...... 001f84:001f0c,000399,...... 001f85:001f0d,000399,...... ",
    "001f86:001f0e,000399,...... 001f87:001f0f,000399,...... 001f88:001f08,000399,...... 001f89:001f09,000399,...... ",
    "001f8a:001f0a,000399,...... 001f8b:001f0b,000399,...... 001f8c:001f0c,000399,...... 001f8d:001f0d,000399,...... ",
    "001f8e:001f0e,000399,...... 001f8f:001f0f,000399,...... 001f90:001f28,000399,...... 001f91:001f29,000399,...... ",
    "001f92:001f2a,000399,...... 001f93:001f2b,000399,...... 001f94:001f2c,000399,...... 001f95:001f2d,000399,...... ",
    "001f96:001f2e,000399,...... 001f97:001f2f,000399,...... 001f98:001f28,000399,...... 001f99:001f29,000399,...... ",
    "001f9a:001f2a,000399,...... 001f9b:001f2b,000399,...... 001f9c:001f2c,000399,...... 001f9d:001f2d,000399,...... ",
    "001f9e:001f2e,000399,...... 001f9f:001f2f,000399,...... 001fa0:001f68,000399,...... 001fa1:001f69,000399,...... ",
    "001fa2:001f6a,000399,...... 001fa3:001f6b,000399,...... 001fa4:001f6c,000399,...... 001fa5:001f6d,000399,...... ",
    "001fa6:001f6e,000399,...... 001fa7:001f6f,000399,...... 001fa8:001f68,000399,...... 001fa9:001f69,000399,...... ",
    "001faa:001f6a,000399,...... 001fab:001f6b,000399,...... 001fac:001f6c,000399,...... 001fad:001f6d,000399,...... ",
    "001fae:001f6e,000399,...... 001faf:001f6f,000399,...... 001fb0:001fb8,......,...... 001fb1:001fb9,......,...... ",
    "001fb2:001fba,000399,...... 001fb3:000391,000399,...... 001fb4:000386,000399,...... 001fb6:000391,000342,...... ",
    "001fb7:000391,000342,000399 001fbc:000391,000399,...... 001fbe:000399,......,...... 001fc2:001fca,000399,...... ",
    "001fc3:000397,000399,...... 001fc4:000389,000399,...... 001fc6:000397,000342,...... 001fc7:000397,000342,000399 ",
    "001fcc:000397,000399,...... 001fd0:001fd8,......,...... 001fd1:001fd9,......,...... 001fd2:000399,000308,000300 ",
    "001fd3:000399,000308,000301 001fd6:000399,000342,...... 001fd7:000399,000308,000342 001fe0:001fe8,......,...... ",
    "001fe1:001fe9,......,...... 001fe2:0003a5,000308,000300 001fe3:0003a5,000308,000301 001fe4:0003a1,000313,...... ",
    "001fe5:001fec,......,...... 001fe6:0003a5,000342,...... 001fe7:0003a5,000308,000342 001ff2:001ffa,000399,...... ",
    "001ff3:0003a9,000399,...... 001ff4:00038f,000399,...... 001ff6:0003a9,000342,...... 001ff7:0003a9,000342,000399 ",
    "001ffc:0003a9,000399,...... 00214e:002132,......,...... 002170:002160,......,...... 002171:002161,......,...... ",
    "002172:002162,......,...... 002173:002163,......,...... 002174:002164,......,...... 002175:002165,......,...... ",
    "002176:002166,......,...... 002177:002167,......,...... 002178:002168,......,...... 002179:002169,......,...... ",
    "00217a:00216a,......,...... 00217b:00216b,......,...... 00217c:00216c,......,...... 00217d:00216d,......,...... ",
    "00217e:00216e,......,...... 00217f:00216f,......,...... 002184:002183,......,...... 0024d0:0024b6,......,...... ",
    "0024d1:0024b7,......,...... 0024d2:0024b8,......,...... 0024d3:0024b9,......,...... 0024d4:0024ba,......,...... ",
    "0024d5:0024bb,......,...... 0024d6:0024bc,......,...... 0024d7:0024bd,......,...... 0024d8:0024be,......,...... ",
    "0024d9:0024bf,......,...... 0024da:0024c0,......,...... 0024db:0024c1,......,...... 0024dc:0024c2,......,...... ",
    "0024dd:0024c3,......,...... 0024de:0024c4,......,...... 0024df:0024c5,......,...... 0024e0:0024c6,......,...... ",
    "0024e1:0024c7,......,...... 0024e2:0024c8,......,...... 0024e3:0024c9,......,...... 0024e4:0024ca,......,...... ",
    "0024e5:0024cb,......,...... 0024e6:0024cc,......,...... 0024e7:0024cd,......,...... 0024e8:0024ce,......,...... ",
    "0024e9:0024cf,......,...... 002c30:002c00,......,...... 002c31:002c01,......,...... 002c32:002c02,......,...... ",
    "002c33:002c03,......,...... 002c34:002c04,......,...... 002c35:002c05,......,...... 002c36:002c06,......,...... ",
    "002c37:002c07,......,...... 002c38:002c08,......,...... 002c39:002c09,......,...... 002c3a:002c0a,......,...... ",
    "002c3b:002c0b,......,...... 002c3c:002c0c,......,...... 002c3d:002c0d,......,...... 002c3e:002c0e,......,...... ",
    "002c3f:002c0f,......,...... 002c40:002c10,......,...... 002c41:002c11,......,...... 002c42:002c12,......,...... ",
    "002c43:002c13,......,...... 002c44:002c14,......,...... 002c45:002c15,......,...... 002c46:002c16,......,...... ",
    "002c47:002c17,......,...... 002c48:002c18,......,...... 002c49:002c19,......,...... 002c4a:002c1a,......,...... ",
    "002c4b:002c1b,......,...... 002c4c:002c1c,......,...... 002c4d:002c1d,......,...... 002c4e:002c1e,......,...... ",
    "002c4f:002c1f,......,...... 002c50:002c20,......,...... 002c51:002c21,......,...... 002c52:002c22,......,...... ",
    "002c53:002c23,......,...... 002c54:002c24,......,...... 002c55:002c25,......,...... 002c56:002c26,......,...... ",
    "002c57:002c27,......,...... 002c58:002c28,......,...... 002c59:002c29,......,...... 002c5a:002c2a,......,...... ",
    "002c5b:002c2b,......,...... 002c5c:002c2c,......,...... 002c5d:002c2d,......,...... 002c5e:002c2e,......,...... ",
    "002c5f:002c2f,......,...... 002c61:002c60,......,...... 002c65:00023a,......,...... 002c66:00023e,......,...... ",
    "002c68:002c67,......,...... 002c6a:002c69,......,...... 002c6c:002c6b,......,...... 002c73:002c72,......,...... ",
    "002c76:002c75,......,...... 002c81:002c80,......,...... 002c83:002c82,......,...... 002c85:002c84,......,...... ",
    "002c87:002c86,......,...... 002c89:002c88,......,...... 002c8b:002c8a,......,...... 002c8d:002c8c,......,...... ",
    "002c8f:002c8e,......,...... 002c91:002c90,......,...... 002c93:002c92,......,...... 002c95:002c94,......,...... ",
    "002c97:002c96,......,...... 002c99:002c98,......,...... 002c9b:002c9a,......,...... 002c9d:002c9c,......,...... ",
    "002c9f:002c9e,......,...... 002ca1:002ca0,......,...... 002ca3:002ca2,......,...... 002ca5:002ca4,......,...... ",
    "002ca7:002ca6,......,...... 002ca9:002ca8,......,...... 002cab:002caa,......,...... 002cad:002cac,......,...... ",
    "002caf:002cae,......,...... 002cb1:002cb0,......,...... 002cb3:002cb2,......,...... 002cb5:002cb4,......,...... ",
    "002cb7:002cb6,......,...... 002cb9:002cb8,......,...... 002cbb:002cba,......,...... 002cbd:002cbc,......,...... ",
    "002cbf:002cbe,......,...... 002cc1:002cc0,......,...... 002cc3:002cc2,......,...... 002cc5:002cc4,......,...... ",
    "002cc7:002cc6,......,...... 002cc9:002cc8,......,...... 002ccb:002cca,......,...... 002ccd:002ccc,......,...... ",
    "002ccf:002cce,......,...... 002cd1:002cd0,......,...... 002cd3:002cd2,......,...... 002cd5:002cd4,......,...... ",
    "002cd7:002cd6,......,...... 002cd9:002cd8,......,...... 002cdb:002cda,......,...... 002cdd:002cdc,......,...... ",
    "002cdf:002cde,......,...... 002ce1:002ce0,......,...... 002ce3:002ce2,......,...... 002cec:002ceb,......,...... ",
    "002cee:002ced,......,...... 002cf3:002cf2,......,...... 002d00:0010a0,......,...... 002d01:0010a1,......,...... ",
    "002d02:0010a2,......,...... 002d03:0010a3,......,...... 002d04:0010a4,......,...... 002d05:0010a5,......,...... ",
    "002d06:0010a6,......,...... 002d07:0010a7,......,...... 002d08:0010a8,......,...... 002d09:0010a9,......,...... ",
    "002d0a:0010aa,......,...... 002d0b:0010ab,......,...... 002d0c:0010ac,......,...... 002d0d:0010ad,......,...... ",
    "002d0e:0010ae,......,...... 002d0f:0010af,......,...... 002d10:0010b0,......,...... 002d11:0010b1,......,...... ",
    "002d12:0010b2,......,...... 002d13:0010b3,......,...... 002d14:0010b4,......,...... 002d15:0010b5,......,...... ",
    "002d16:0010b6,......,...... 002d17:0010b7,......,...... 002d18:0010b8,......,...... 002d19:0010b9,......,...... ",
    "002d1a:0010ba,......,...... 002d1b:0010bb,......,...... 002d1c:0010bc,......,...... 002d1d:0010bd,......,...... ",
    "002d1e:0010be,......,...... 002d1f:0010bf,......,...... 002d20:0010c0,......,...... 002d21:0010c1,......,...... ",
    "002d22:0010c2,......,...... 002d23:0010c3,......,...... 002d24:0010c4,......,...... 002d25:0010c5,......,...... ",
    "002d27:0010c7,......,...... 002d2d:0010cd,......,...... 00a641:00a640,......,...... 00a643:00a642,......,...... ",
    "00a645:00a644,......,...... 00a647:00a646,......,...... 00a649:00a648,......,...... 00a64b:00a64a,......,...... ",
    "00a64d:00a64c,......,...... 00a64f:00a64e,......,...... 00a651:00a650,......,...... 00a653:00a652,......,...... ",
    "00a655:00a654,......,...... 00a657:00a656,......,...... 00a659:00a658,......,...... 00a65b:00a65a,......,...... ",
    "00a65d:00a65c,......,...... 00a65f:00a65e,......,...... 00a661:00a660,......,...... 00a663:00a662,......,...... ",
    "00a665:00a664,......,...... 00a667:00a666,......,...... 00a669:00a668,......,...... 00a66b:00a66a,......,...... ",
    "00a66d:00a66c,......,...... 00a681:00a680,......,...... 00a683:00a682,......,...... 00a685:00a684,......,...... ",
    "00a687:00a686,......,...... 00a689:00a688,......,...... 00a68b:00a68a,......,...... 00a68d:00a68c,......,...... ",
    "00a68f:00a68e,......,...... 00a691:00a690,......,...... 00a693:00a692,......,...... 00a695:00a694,......,...... ",
    "00a697:00a696,......,...... 00a699:00a698,......,...... 00a69b:00a69a,......,...... 00a723:00a722,......,...... ",
    "00a725:00a724,......,...... 00a727:00a726,......,...... 00a729:00a728,......,...... 00a72b:00a72a,......,...... ",
    "00a72d:00a72c,......,...... 00a72f:00a72e,......,...... 00a733:00a732,......,...... 00a735:00a734,......,...... ",
    "00a737:00a736,......,...... 00a739:00a738,......,...... 00a73b:00a73a,......,...... 00a73d:00a73c,......,...... ",
    "00a73f:00a73e,......,...... 00a741:00a740,......,...... 00a743:00a742,......,...... 00a745:00a744,......,...... ",
    "00a747:00a746,......,...... 00a749:00a748,......,...... 00a74b:00a74a,......,...... 00a74d:00a74c,......,...... ",
    "00a74f:00a74e,......,...... 00a751:00a750,......,...... 00a753:00a752,......,...... 00a755:00a754,......,...... ",
    "00a757:00a756,......,...... 00a759:00a758,......,...... 00a75b:00a75a,......,...... 00a75d:00a75c,......,...... ",
    "00a75f:00a75e,......,...... 00a761:00a760,......,...... 00a763:00a762,......,...... 00a765:00a764,......,...... ",
    "00a767:00a766,......,...... 00a769:00a768,......,...... 00a76b:00a76a,......,...... 00a76d:00a76c,......,...... ",
    "00a76f:00a76e,......,...... 00a77a:00a779,......,...... 00a77c:00a77b,......,...... 00a77f:00a77e,......,...... ",
    "00a781:00a780,......,...... 00a783:00a782,......,...... 00a785:00a784,......,...... 00a787:00a786,......,...... ",
    "00a78c:00a78b,......,...... 00a791:00a790,......,...... 00a793:00a792,......,...... 00a794:00a7c4,......,...... ",
    "00a797:00a796,......,...... 00a799:00a798,......,...... 00a79b:00a79a,......,...... 00a79d:00a79c,......,...... ",
    "00a79f:00a79e,......,...... 00a7a1:00a7a0,......,...... 00a7a3:00a7a2,......,...... 00a7a5:00a7a4,......,...... ",
    "00a7a7:00a7a6,......,...... 00a7a9:00a7a8,......,...... 00a7b5:00a7b4,......,...... 00a7b7:00a7b6,......,...... ",
    "00a7b9:00a7b8,......,...... 00a7bb:00a7ba,......,...... 00a7bd:00a7bc,......,...... 00a7bf:00a7be,......,...... ",
    "00a7c1:00a7c0,......,...... 00a7c3:00a7c2,......,...... 00a7c8:00a7c7,......,...... 00a7ca:00a7c9,......,...... ",
    "00a7d1:00a7d0,......,...... 00a7d7:00a7d6,......,...... 00a7d9:00a7d8,......,...... 00a7f6:00a7f5,......,...... ",
    "00ab53:00a7b3,......,...... 00ab70:0013a0,......,...... 00ab71:0013a1,......,...... 00ab72:0013a2,......,...... ",
    "00ab73:0013a3,......,...... 00ab74:0013a4,......,...... 00ab75:0013a5,......,...... 00ab76:0013a6,......,...... ",
    "00ab77:0013a7,......,...... 00ab78:0013a8,......,...... 00ab79:0013a9,......,...... 00ab7a:0013aa,......,...... ",
    "00ab7b:0013ab,......,...... 00ab7c:0013ac,......,...... 00ab7d:0013ad,......,...... 00ab7e:0013ae,......,...... ",
    "00ab7f:0013af,......,...... 00ab80:0013b0,......,...... 00ab81:0013b1,......,...... 00ab82:0013b2,......,...... ",
    "00ab83:0013b3,......,...... 00ab84:0013b4,......,...... 00ab85:0013b5,......,...... 00ab86:0013b6,......,...... ",
    "00ab87:0013b7,......,...... 00ab88:0013b8,......,...... 00ab89:0013b9,......,...... 00ab8a:0013ba,......,...... ",
    "00ab8b:0013bb,......,...... 00ab8c:0013bc,......,...... 00ab8d:0013bd,......,...... 00ab8e:0013be,......,...... ",
    "00ab8f:0013bf,......,...... 00ab90:0013c0,......,...... 00ab91:0013c1,......,...... 00ab92:0013c2,......,...... ",
    "00ab93:0013c3,......,...... 00ab94:0013c4,......,...... 00ab95:0013c5,......,...... 00ab96:0013c6,......,...... ",
    "00ab97:0013c7,......,...... 00ab98:0013c8,......,...... 00ab99:0013c9,......,...... 00ab9a:0013ca,......,...... ",
    "00ab9b:0013cb,......,...... 00ab9c:0013cc,......,...... 00ab9d:0013cd,......,...... 00ab9e:0013ce,......,...... ",
    "00ab9f:0013cf,......,...... 00aba0:0013d0,......,...... 00aba1:0013d1,......,...... 00aba2:0013d2,......,...... ",
    "00aba3:0013d3,......,...... 00aba4:0013d4,......,...... 00aba5:0013d5,......,...... 00aba6:0013d6,......,...... ",
    "00aba7:0013d7,......,...... 00aba8:0013d8,......,...... 00aba9:0013d9,......,...... 00abaa:0013da,......,...... ",
    "00abab:0013db,......,...... 00abac:0013dc,......,...... 00abad:0013dd,......,...... 00abae:0013de,......,...... ",
    "00abaf:0013df,......,...... 00abb0:0013e0,......,...... 00abb1:0013e1,......,...... 00abb2:0013e2,......,...... ",
    "00abb3:0013e3,......,...... 00abb4:0013e4,......,...... 00abb5:0013e5,......,...... 00abb6:0013e6,......,...... ",
    "00abb7:0013e7,......,...... 00abb8:0013e8,......,...... 00abb9:0013e9,......,...... 00abba:0013ea,......,...... ",
    "00abbb:0013eb,......,...... 00abbc:0013ec,......,...... 00abbd:0013ed,......,...... 00abbe:0013ee,......,...... ",
    "00abbf:0013ef,......,...... 00fb00:000046,000046,...... 00fb01:000046,000049,...... 00fb02:000046,00004c,...... ",
    "00fb03:000046,000046,000049 00fb04:000046,000046,00004c 00fb05:000053,000054,...... 00fb06:000053,000054,...... ",
    "00fb13:000544,000546,...... 00fb14:000544,000535,...... 00fb15:000544,00053b,...... 00fb16:00054e,000546,...... ",
    "00fb17:000544,00053d,...... 00ff41:00ff21,......,...... 00ff42:00ff22,......,...... 00ff43:00ff23,......,...... ",
    "00ff44:00ff24,......,...... 00ff45:00ff25,......,...... 00ff46:00ff26,......,...... 00ff47:00ff27,......,...... ",
    "00ff48:00ff28,......,...... 00ff49:00ff29,......,...... 00ff4a:00ff2a,......,...... 00ff4b:00ff2b,......,...... ",
    "00ff4c:00ff2c,......,...... 00ff4d:00ff2d,......,...... 00ff4e:00ff2e,......,...... 00ff4f:00ff2f,......,...... ",
    "00ff50:00ff30,......,...... 00ff51:00ff31,......,...... 00ff52:00ff32,......,...... 00ff53:00ff33,......,...... ",
    "00ff54:00ff34,......,...... 00ff55:00ff35,......,...... 00ff56:00ff36,......,...... 00ff57:00ff37,......,...... ",
    "00ff58:00ff38,......,...... 00ff59:00ff39,......,...... 00ff5a:00ff3a,......,...... 010428:010400,......,...... ",
    "010429:010401,......,...... 01042a:010402,......,...... 01042b:010403,......,...... 01042c:010404,......,...... ",
    "01042d:010405,......,...... 01042e:010406,......,...... 01042f:010407,......,...... 010430:010408,......,...... ",
    "010431:010409,......,...... 010432:01040a,......,...... 010433:01040b,......,...... 010434:01040c,......,...... ",
    "010435:01040d,......,...... 010436:01040e,......,...... 010437:01040f,......,...... 010438:010410,......,...... ",
    "010439:010411,......,...... 01043a:010412,......,...... 01043b:010413,......,...... 01043c:010414,......,...... ",
    "01043d:010415,......,...... 01043e:010416,......,...... 01043f:010417,......,...... 010440:010418,......,...... ",
    "010441:010419,......,...... 010442:01041a,......,...... 010443:01041b,......,...... 010444:01041c,......,...... ",
    "010445:01041d,......,...... 010446:01041e,......,...... 010447:01041f,......,...... 010448:010420,......,...... ",
    "010449:010421,......,...... 01044a:010422,......,...... 01044b:010423,......,...... 01044c:010424,......,...... ",
    "01044d:010425,......,...... 01044e:010426,......,...... 01044f:010427,......,...... 0104d8:0104b0,......,...... ",
    "0104d9:0104b1,......,...... 0104da:0104b2,......,...... 0104db:0104b3,......,...... 0104dc:0104b4,......,...... ",
    "0104dd:0104b5,......,...... 0104de:0104b6,......,...... 0104df:0104b7,......,...... 0104e0:0104b8,......,...... ",
    "0104e1:0104b9,......,...... 0104e2:0104ba,......,...... 0104e3:0104bb,......,...... 0104e4:0104bc,......,...... ",
    "0104e5:0104bd,......,...... 0104e6:0104be,......,...... 0104e7:0104bf,......,...... 0104e8:0104c0,......,...... ",
    "0104e9:0104c1,......,...... 0104ea:0104c2,......,...... 0104eb:0104c3,......,...... 0104ec:0104c4,......,...... ",
    "0104ed:0104c5,......,...... 0104ee:0104c6,......,...... 0104ef:0104c7,......,...... 0104f0:0104c8,......,...... ",
    "0104f1:0104c9,......,...... 0104f2:0104ca,......,...... 0104f3:0104cb,......,...... 0104f4:0104cc,......,...... ",
    "0104f5:0104cd,......,...... 0104f6:0104ce,......,...... 0104f7:0104cf,......,...... 0104f8:0104d0,......,...... ",
    "0104f9:0104d1,......,...... 0104fa:0104d2,......,...... 0104fb:0104d3,......,...... 010597:010570,......,...... ",
    "010598:010571,......,...... 010599:010572,......,...... 01059a:010573,......,...... 01059b:010574,......,...... ",
    "01059c:010575,......,...... 01059d:010576,......,...... 01059e:010577,......,...... 01059f:010578,......,...... ",
    "0105a0:010579,......,...... 0105a1:01057a,......,...... 0105a3:01057c,......,...... 0105a4:01057d,......,...... ",
    "0105a5:01057e,......,...... 0105a6:01057f,......,...... 0105a7:010580,......,...... 0105a8:010581,......,...... ",
    "0105a9:010582,......,...... 0105aa:010583,......,...... 0105ab:010584,......,...... 0105ac:010585,......,...... ",
    "0105ad:010586,......,...... 0105ae:010587,......,...... 0105af:010588,......,...... 0105b0:010589,......,...... ",
    "0105b1:01058a,......,...... 0105b3:01058c,......,...... 0105b4:01058d,......,...... 0105b5:01058e,......,...... ",
    "0105b6:01058f,......,...... 0105b7:010590,......,...... 0105b8:010591,......,...... 0105b9:010592,......,...... ",
    "0105bb:010594,......,...... 0105bc:010595,......,...... 010cc0:010c80,......,...... 010cc1:010c81,......,...... ",
    "010cc2:010c82,......,...... 010cc3:010c83,......,...... 010cc4:010c84,......,...... 010cc5:010c85,......,...... ",
    "010cc6:010c86,......,...... 010cc7:010c87,......,...... 010cc8:010c88,......,...... 010cc9:010c89,......,...... ",
    "010cca:010c8a,......,...... 010ccb:010c8b,......,...... 010ccc:010c8c,......,...... 010ccd:010c8d,......,...... ",
    "010cce:010c8e,......,...... 010ccf:010c8f,......,...... 010cd0:010c90,......,...... 010cd1:010c91,......,...... ",
    "010cd2:010c92,......,...... 010cd3:010c93,......,...... 010cd4:010c94,......,...... 010cd5:010c95,......,...... ",
    "010cd6:010c96,......,...... 010cd7:010c97,......,...... 010cd8:010c98,......,...... 010cd9:010c99,......,...... ",
    "010cda:010c9a,......,...... 010cdb:010c9b,......,...... 010cdc:010c9c,......,...... 010cdd:010c9d,......,...... ",
    "010cde:010c9e,......,...... 010cdf:010c9f,......,...... 010ce0:010ca0,......,...... 010ce1:010ca1,......,...... ",
    "010ce2:010ca2,......,...... 010ce3:010ca3,......,...... 010ce4:010ca4,......,...... 010ce5:010ca5,......,...... ",
    "010ce6:010ca6,......,...... 010ce7:010ca7,......,...... 010ce8:010ca8,......,...... 010ce9:010ca9,......,...... ",
    "010cea:010caa,......,...... 010ceb:010cab,......,...... 010cec:010cac,......,...... 010ced:010cad,......,...... ",
    "010cee:010cae,......,...... 010cef:010caf,......,...... 010cf0:010cb0,......,...... 010cf1:010cb1,......,...... ",
    "010cf2:010cb2,......,...... 0118c0:0118a0,......,...... 0118c1:0118a1,......,...... 0118c2:0118a2,......,...... ",
    "0118c3:0118a3,......,...... 0118c4:0118a4,......,...... 0118c5:0118a5,......,...... 0118c6:0118a6,......,...... ",
    "0118c7:0118a7,......,...... 0118c8:0118a8,......,...... 0118c9:0118a9,......,...... 0118ca:0118aa,......,...... ",
    "0118cb:0118ab,......,...... 0118cc:0118ac,......,...... 0118cd:0118ad,......,...... 0118ce:0118ae,......,...... ",
    "0118cf:0118af,......,...... 0118d0:0118b0,......,...... 0118d1:0118b1,......,...... 0118d2:0118b2,......,...... ",
    "0118d3:0118b3,......,...... 0118d4:0118b4,......,...... 0118d5:0118b5,......,...... 0118d6:0118b6,......,...... ",
    "0118d7:0118b7,......,...... 0118d8:0118b8,......,...... 0118d9:0118b9,......,...... 0118da:0118ba,......,...... ",
    "0118db:0118bb,......,...... 0118dc:0118bc,......,...... 0118dd:0118bd,......,...... 0118de:0118be,......,...... ",
    "0118df:0118bf,......,...... 016e60:016e40,......,...... 016e61:016e41,......,...... 016e62:016e42,......,...... ",
    "016e63:016e43,......,...... 016e64:016e44,......,...... 016e65:016e45,......,...... 016e66:016e46,......,...... ",
    "016e67:016e47,......,...... 016e68:016e48,......,...... 016e69:016e49,......,...... 016e6a:016e4a,......,...... ",
    "016e6b:016e4b,......,...... 016e6c:016e4c,......,...... 016e6d:016e4d,......,...... 016e6e:016e4e,......,...... ",
    "016e6f:016e4f,......,...... 016e70:016e50,......,...... 016e71:016e51,......,...... 016e72:016e52,......,...... ",
    "016e73:016e53,......,...... 016e74:016e54,......,...... 016e75:016e55,......,...... 016e76:016e56,......,...... ",
    "016e77:016e57,......,...... 016e78:016e58,......,...... 016e79:016e59,......,...... 016e7a:016e5a,......,...... ",
    "016e7b:016e5b,......,...... 016e7c:016e5c,......,...... 016e7d:016e5d,......,...... 016e7e:016e5e,......,...... ",
    "016e7f:016e5f,......,...... 01e922:01e900,......,...... 01e923:01e901,......,...... 01e924:01e902,......,...... ",
    "01e925:01e903,......,...... 01e926:01e904,......,...... 01e927:01e905,......,...... 01e928:01e906,......,...... ",
    "01e929:01e907,......,...... 01e92a:01e908,......,...... 01e92b:01e909,......,...... 01e92c:01e90a,......,...... ",
    "01e92d:01e90b,......,...... 01e92e:01e90c,......,...... 01e92f:01e90d,......,...... 01e930:01e90e,......,...... ",
    "01e931:01e90f,......,...... 01e932:01e910,......,...... 01e933:01e911,......,...... 01e934:01e912,......,...... ",
    "01e935:01e913,......,...... 01e936:01e914,......,...... 01e937:01e915,......,...... 01e938:01e916,......,...... ",
    "01e939:01e917,......,...... 01e93a:01e918,......,...... 01e93b:01e919,......,...... 01e93c:01e91a,......,...... ",
    "01e93d:01e91b,......,...... 01e93e:01e91c,......,...... 01e93f:01e91d,......,...... 01e940:01e91e,......,...... ",
    "01e941:01e91f,......,...... 01e942:01e920,......,...... 01e943:01e921,......,...... "
  >>

\* the character whose code point the six hexadecimal digits h denote: a
\* letter of ASCII or a character outside ASCII
chr(h) ==
  LET n == hex_value(h, 6)
  IN  IF n \in 65..90 THEN ASCII_UPPERCASE[n - 64]
      ELSE IF n \in 97..122 THEN ASCII_LOWERCASE[n - 96]
      ELSE IF SubSeq(h, 1, 2) = "00" THEN "\\u" \o SubSeq(h, 3, 6)
      ELSE "\\U00" \o h

\* the i-th entry of UPPER_CASES_HEX as <<code point, upper case>>
upper_case(i) ==
  LET j    == (i - 1) % 4
      r    == SubSeq(UPPER_CASES_HEX[(i - 1) \div 4 + 1], 28 * j + 1, 28 * j + 28)
      u(k) == SubSeq(r, 7 * k + 1, 7 * k + 6)
  IN  <<hex_value(SubSeq(r, 1, 6), 6),
        [k \in 1..Cardinality({m \in 1..3 : u(m) # "......"}) |-> chr(u(k))] \o <<>> >>

\* the code point of every character outside ASCII that str.upper() changes,
\* with its upper case, in ascending order
UPPER_CASES ==
  LET rows == Len(UPPER_CASES_HEX)
      n    == 4 * (rows - 1) + Len(UPPER_CASES_HEX[rows]) \div 28
  IN  [i \in 1..n |-> upper_case(i)] \o <<>>

\* str.upper() of each lower-case letter of ASCII
UPPER_OF ==
  [c \in Range(ASCII_LOWERCASE) |->
     ASCII_UPPERCASE[CHOOSE i \in 1..Len(ASCII_LOWERCASE) : ASCII_LOWERCASE[i] = c]]

\* the lower case of each upper-case letter of ASCII
LOWER_OF ==
  [c \in Range(ASCII_UPPERCASE) |->
     ASCII_LOWERCASE[CHOOSE i \in 1..Len(ASCII_UPPERCASE) : ASCII_UPPERCASE[i] = c]]

\* the characters outside ASCII that a pattern under re.IGNORECASE takes for
\* a letter of ASCII, besides the letter in its two cases: the dotted I and
\* the dotless i for i, the long s for s, the Kelvin sign for k
EXTRA_CASES ==
  [c \in {"i", "s", "k"} |->
     CASE c = "i" -> {"\\u0130", "\\u0131"}
       [] c = "s" -> {"\\u017f"}
       [] c = "k" -> {"\\u212a"}]

RECURSIVE upper_case_of(_, _, _)
\* the index, among the entries lo..hi of UPPER_CASES, of the one of the code
\* point n, or 0 (binary search)
upper_case_of(n, lo, hi) ==
  IF lo > hi THEN 0
  ELSE LET mid == (lo + hi) \div 2
       IN  IF n < UPPER_CASES[mid][1] THEN upper_case_of(n, lo, mid - 1)
           ELSE IF n > UPPER_CASES[mid][1] THEN upper_case_of(n, mid + 1, hi)
           ELSE mid

\* c.upper() of one character: a str of one or more characters
upper_char(c) ==
  IF c \in DOMAIN UPPER_OF THEN <<UPPER_OF[c]>>
  ELSE IF is_escape(c)
         THEN LET i == upper_case_of(code_point(c), 1, Len(UPPER_CASES))
              IN  IF i > 0 THEN UPPER_CASES[i][2] ELSE <<c>>
         ELSE <<c>>

\* the lower case of a character of ASCII; any other character as it is
ascii_lower(c) == IF c \in DOMAIN LOWER_OF THEN LOWER_OF[c] ELSE c

RECURSIVE concat(_)
\* the strs of ss joined
concat(ss) == IF Len(ss) = 0 THEN <<>> ELSE Head(ss) \o concat(Tail(ss))

\* str.upper(): character by character; the result is longer than s when a
\* character has an upper case of several characters
upper(s) ==
  IF \A i \in 1..Len(s) : Len(upper_char(s[i])) = 1
    THEN [i \in 1..Len(s) |-> upper_char(s[i])[1]]
    ELSE concat([i \in 1..Len(s) |-> upper_char(s[i])])

RECURSIVE str_of(_)
\* the characters of s as one text
str_of(s) == IF Len(s) = 0 THEN "" ELSE Head(s) \o str_of(Tail(s))

(***************************************************************************)
(* Module-level code, lines 87-99.                                         *)
(***************************************************************************)
\* line 87: {**g1, **g2, **g3, **g4, **g5}, the five groups unpacked from
\* left to right into one dict
merge_groups(gs) ==
  dict_update(dict_update(dict_update(dict_update(dict_update(<<>>, gs[1]), gs[2]), gs[3]),
                          gs[4]), gs[5])

\* line 93: sorted(keys, key=len, reverse=True), a stable sort: a key stands
\* behind the longer keys and behind the keys of its length that precede it
sorted_by_len_desc(ks) ==
  LET rank(i) == Cardinality({j \in 1..Len(ks) : Len(ks[j]) > Len(ks[i])})
                 + Cardinality({j \in 1..(i - 1) : Len(ks[j]) = Len(ks[i])}) + 1
  IN  [r \in 1..Len(ks) |-> ks[CHOOSE i \in 1..Len(ks) : rank(i) = r]]

\* re_compile gone wrong: the pattern without its two \b
re_compile_unbounded(names) ==
  [alts       |-> IF names = <<>> THEN << <<>> >> ELSE names,
   lead_b     |-> FALSE,
   trail_b    |-> FALSE,
   ignorecase |-> TRUE]

\* lines 94-99: \b(?P<name>k1|k2|...)\b under re.IGNORECASE.  re.escape makes
\* every character of a key a literal; an empty list of names leaves the
\* one empty alternative
re_compile(names) ==
  [alts       |-> IF names = <<>> THEN << <<>> >> ELSE names,
   lead_b     |-> TRUE,
   trail_b    |-> TRUE,
   ignorecase |-> TRUE]

(***************************************************************************)
(* The re engine on such a pattern.                                        *)
(***************************************************************************)
\* whether offset p of t holds a word character
word_at(t, p) == p >= 0 /\ p < Len(t) /\ is_word_char(t[p + 1])

\* \b at offset p: exactly one of the characters before and at p is a word
\* character
word_boundary(t, p) == word_at(t, p - 1) # word_at(t, p)

\* a literal pattern character l against a text character c.  The literals
\* of the pattern are the characters of the keys, which are of ASCII; under
\* IGNORECASE c matches a letter l when it is l in either case or one of
\* the extra cases of l
char_matches(re, c, l) ==
  IF re.ignorecase
    THEN LET lo == ascii_lower(l)
         IN  \/ ascii_lower(c) = lo
             \/ lo \in DOMAIN EXTRA_CASES /\ c \in EXTRA_CASES[lo]
    ELSE c = l

\* the literal lit at offset p of t
literal_at(re, t, p, lit) ==
  /\ p + Len(lit) <= Len(t)
  /\ \A j \in 1..Len(lit) : char_matches(re, t[p + j], lit[j])

RECURSIVE try_alts(_, _, _, _)
\* the alternatives from the a-th on, in order, at offset p: the end offset
\* of the first one after which the rest of the pattern matches too, or -1
try_alts(re, t, p, a) ==
  IF a > Len(re.alts) THEN -1
  ELSE LET e == p + Len(re.alts[a])
       IN  IF literal_at(re, t, p, re.alts[a]) /\ (re.trail_b => word_boundary(t, e))
             THEN e
             ELSE try_alts(re, t, p, a + 1)

\* the pattern at offset p: the end offset of the match, or -1
match_at(re, t, p) ==
  IF re.lead_b => word_boundary(t, p) THEN try_alts(re, t, p, 1) ELSE -1

RECURSIVE finditer_one_based(_, _, _)
\* finditer gone wrong: the spans counted from 1
finditer_one_based(re, t, p) ==
  IF p > Len(t) THEN <<>>
  ELSE LET e == match_at(re, t, p)
       IN  IF e < 0 THEN finditer_one_based(re, t, p + 1)
           ELSE <<[span |-> <<p + 1, e + 1>>, name |-> SubSeq(t, p + 1, e)]>>
                \o finditer_one_based(re, t, IF e > p THEN e ELSE p + 1)

RECURSIVE finditer(_, _, _)
\* re.finditer from offset p: the non-overlapping matches, left to right;
\* after an empty match the search goes on one character further
finditer(re, t, p) ==
  IF p > Len(t) THEN <<>>
  ELSE LET e == match_at(re, t, p)
       IN  IF e < 0 THEN finditer(re, t, p + 1)
           ELSE <<[span |-> <<p, e>>, name |-> SubSeq(t, p + 1, e)]>>
                \o finditer(re, t, IF e > p THEN e ELSE p + 1)

(***************************************************************************)
(* Helpers and the scan, lines 119-154.                                    *)
(***************************************************************************)
\* _add_hit gone wrong: the record put in front of the list
_add_hit_front(hits, span, target_name, suggested_statement, note) ==
  LET meta == [table               |-> target_name,
               target_type         |-> "Table",
               target_name         |-> target_name,
               start_char_in_unit  |-> span[1],
               end_char_in_unit    |-> span[2],
               used_fields         |-> <<>>,
               ambiguous           |-> FALSE,
               suggested_statement |-> suggested_statement,
               suggested_fields    |-> None]
  IN  <<IF note # "" THEN meta @@ [note |-> note] ELSE meta>> \o hits

\* _add_hit gone wrong: the two ends of the span taken for each other
_add_hit_swapped(hits, span, target_name, suggested_statement, note) ==
  LET meta == [table               |-> target_name,
               target_type         |-> "Table",
               target_name         |-> target_name,
               start_char_in_unit  |-> span[2],
               end_char_in_unit    |-> span[1],
               used_fields         |-> <<>>,
               ambiguous           |-> FALSE,
               suggested_statement |-> suggested_statement,
               suggested_fields    |-> None]
  IN  Append(hits, IF note # "" THEN meta @@ [note |-> note] ELSE meta)

\* lines 126-139: hits with one more record; the note is set only when it
\* is truthy
_add_hit(hits, span, target_name, suggested_statement, note) ==
  LET meta == [table               |-> target_name,
               target_type         |-> "Table",
               target_name         |-> target_name,
               start_char_in_unit  |-> span[1],
               end_char_in_unit    |-> span[2],
               used_fields         |-> <<>>,
               ambiguous           |-> FALSE,
               suggested_statement |-> suggested_statement,
               suggested_fields    |-> None]
  IN  Append(hits, IF note # "" THEN meta @@ [note |-> note] ELSE meta)

\* the statement gone wrong: the two names taken for each other
suggested_for_swapped(info, name) ==
  "Use " \o str_of(name) \o " instead of " \o info.new \o "."

\* line 151: f"Use {info['new']} instead of {name}."
suggested_for(info, name) ==
  "Use " \o info.new \o " instead of " \o str_of(name) \o "."

\* the loop body gone wrong: the matched text looked up as it stands,
\* without upper()
hit_of_literal(tm, hits, m) ==
  LET name == m.name
      info == dict_get(tm, name)
  IN  IF info # None
        THEN _add_hit(hits, m.span, name, suggested_for(info[1], name), info[1].note)
        ELSE hits

\* lines 148-152, the body of the loop for one match m.  The matched text
\* in upper case is a key unless it holds a character that IGNORECASE takes
\* for a letter of the key and upper() does not turn into it (the Kelvin
\* sign, the dotted I); then info is None and nothing is added
hit_of(tm, hits, m) ==
  LET name == upper(m.name)
      info == dict_get(tm, name)
  IN  IF info # None
        THEN _add_hit(hits, m.span, name, suggested_for(info[1], name), info[1].note)
        ELSE hits

RECURSIVE hits_of(_, _, _)
\* lines 147-152: the loop over the matches ms
hits_of(tm, hits, ms) ==
  IF Len(ms) = 0 THEN hits ELSE hits_of(tm, hit_of(tm, hits, Head(ms)), Tail(ms))

\* the scan gone wrong: no guard, so that None reaches finditer, which
\* raises TypeError
find_mm_im_issues_unguarded(tm, re, o) ==
  IF o = None THEN <<[raised |-> "TypeError"]>>
  ELSE hits_of(tm, <<>>, finditer(re, o[1], 0))

\* lines 141-154, reading the globals tm (TABLE_MAP) and re (TABLE_RE); o is
\* the Optional[str] argument
find_mm_im_issues(tm, re, o) ==
  IF ~Truthy(o) THEN <<>> ELSE hits_of(tm, <<>>, finditer(re, o[1], 0))

\* line 168: u.code or ""
code_or_empty(u) == IF Truthy(u.code) THEN u.code[1] ELSE <<>>

\* one call of find_mm_im_issues with the module globals g: what it returns
\* and the globals it leaves.  Lines 141-154 assign to no global and call no
\* mutating method on one
find_call(g, o) ==
  [ret |-> find_mm_im_issues(g.TABLE_MAP, g.TABLE_RE, o), globals |-> g]

RECURSIVE remediate_units(_, _, _)
\* lines 166-174: the loop over the units us, one call of find_mm_im_issues
\* after the other; each result is the unit's own fields and the findings
remediate_units(g, acc, us) ==
  IF Len(us) = 0 THEN [ret |-> acc, globals |-> g]
  ELSE LET u == Head(us)
           r == find_call(g, Some(code_or_empty(u)))
           obj == [code |-> u.code, mb_txn_usage |-> r.ret]
       IN  remediate_units(r.globals, Append(acc, obj), Tail(us))

(***************************************************************************)
(* Inputs.                                                                 *)
(***************************************************************************)
\* the keys of the table the source builds
SOURCE_KEYS == Range(dict_keys(merge_groups(SOURCE_GROUPS)))

\* casings of a word: as is, lower case, and alternating upper and lower
Casings == {"upper", "lower", "mixed"}

cased(w, c) ==
  CASE c = "upper" -> upper(w)
    [] c = "lower" -> [i \in 1..Len(w) |-> ascii_lower(w[i])]
    [] OTHER -> [i \in 1..Len(w) |-> IF i % 2 = 1 THEN w[i] ELSE ascii_lower(w[i])]

\* what may stand right before and right after a word
Affixes ==
  {<<>>, <<" ">>, <<".">>, <<"_">>, <<"X">>, <<"1">>, <<"H">>, <<"\\u00e9">>, <<"\\u0307">>}

\* one key in some casing between two affixes
KeyTexts ==
  {a \o cased(k, c) \o b : a \in Affixes, b \in Affixes, k \in SOURCE_KEYS, c \in Casings}

\* spellings of a word with a character outside ASCII in the place of a
\* letter: long s for s, dotless i for i, dotted I for I, the Kelvin sign for K
Spellings == {"long_s", "dotless_i", "dotted_I", "kelvin"}

respelled(w, v) ==
  CASE v = "long_s" ->
         [i \in 1..Len(w) |-> IF w[i] = "S" THEN "\\u017f" ELSE ascii_lower(w[i])]
    [] v = "dotless_i" ->
         [i \in 1..Len(w) |-> IF w[i] = "I" THEN "\\u0131" ELSE w[i]]
    [] v = "dotted_I" ->
         [i \in 1..Len(w) |-> IF w[i] = "I" THEN "\\u0130" ELSE w[i]]
    [] OTHER ->
         [i \in 1..Len(w) |-> IF w[i] = "K" THEN "\\u212a" ELSE w[i]]

\* one key in some such spelling, alone, after a space or next to a letter
\* outside ASCII
SpelledTexts ==
  {a \o respelled(k, v) \o b :
     a \in {<<>>, <<" ">>}, b \in {<<>>, <<"\\u00e9">>}, k \in SOURCE_KEYS, v \in Spellings}

Pieces ==
  {<<"M", "K", "P", "F">>, <<"m", "s", "e", "g">>, <<"M", "A", "R", "C", "H">>, <<" ">>}

RECURSIVE Concats(_)
\* the texts made of at most n pieces
Concats(n) ==
  IF n = 0 THEN {<<>>}
  ELSE LET shorter == Concats(n - 1)
       IN  shorter \cup {t \o p : t \in shorter, p \in Pieces}

\* texts written out in full
Examples ==
  {<<"M", "S", "E", "G", "_", "1">>,
   <<"M", "K", "P", "F", " ", "a", "n", "d", " ", "M", "S", "E", "G", " ", "a", "n", "d", " ",
     "M", "K", "P", "F">>,
   <<"S", "E", "L", "E", "C", "T", " ", "*", " ", "F", "R", "O", "M", " ", "M", "S", "E", "G", " ",
     "W", "H", "E", "R", "E", " ", ".", ".", ".">>,
   <<"D", "A", "T", "A", ":", " ", "l", "v", "_", "f", "o", "o", " ", "T", "Y", "P", "E", " ",
     "s", "t", "r", "i", "n", "g", ".">>,
   <<"M", "K", "P", "F", "_", "M", "S", "E", "G">>,
   <<"m", "k", "p", "f", "-", "M", "a", "r", "c", ",", "m", "a", "r", "c", "h", "h">>,
   <<"m", "\\u017f", "e", "g", " ", "M", "S", "E", "G">>,
   <<"M", "S", "E", "G", "\\u2192", "M", "A", "T", "D", "O", "C">>,
   <<"s", "t", "r", "a", "\\u00df", "e", "\\u00a0", "m", "s", "e", "g", "\\u0663">>,
   <<"M", "S", "E", "G", "\\u00f1", " ", "M", "K", "P", "F">>,
   <<"\\u4e2d", "M", "S", "E", "G">>,
   <<"M", "A", "R", "C", "\\U0001d7ce", "\\u2014", "m", "a", "r", "c", "\\U0001f600">>,
   <<"\\u00e0", " ", "m", "\\u017f", "e", "g", "\\u00b7", "M", "\\u212a", "P", "F">>,
   <<"m", "\\u00df", "a">>,
   <<"M", "\\ufb06", "B", " ", "m", "s", "t", "b">>}

\* the arguments of the direct calls
Texts ==
  {None} \cup {Some(t) : t \in KeyTexts \cup SpelledTexts \cup Concats(MaxPieces) \cup Examples}

\* the code fields of the units of a request
Codes ==
  {None, Some(<<>>), Some(<<"M", "S", "E", "G">>), Some(<<"m", "a", "r", "c", "h", " ", "x">>),
   Some(<<"x">>), Some(<<"M", "S", "E", "G", "\\u00e9">>), Some(<<"m", "\\u017f", "e", "g">>)}

RECURSIVE Batches(_)
\* the request bodies of at most n units
Batches(n) ==
  IF n = 0 THEN {<<>>}
  ELSE LET shorter == Batches(n - 1)
       IN  shorter \cup {Append(us, [code |-> c]) : us \in shorter, c \in Codes}

(***************************************************************************)
(* The process.                                                            *)
(***************************************************************************)
\* the module globals the scan reads
Globals == [TABLE_MAP |-> TABLE_MAP, TABLE_NAMES |-> TABLE_NAMES, TABLE_RE |-> TABLE_RE]

Init ==
  /\ pc = "import"
  /\ GROUPS = SOURCE_GROUPS
  /\ TABLE_MAP = <<>>
  /\ TABLE_NAMES = <<>>
  /\ TABLE_RE = re_compile(<<>>)
  /\ txt = None
  /\ issues = <<>>
  /\ units = <<>>
  /\ results = <<>>

\* the import gone wrong: the pattern built from the keys as the dict holds
\* them, unsorted, and without the closing \b
load_module_naive ==
  /\ pc = "import"
  /\ TABLE_MAP' = merge_groups(GROUPS)
  /\ TABLE_NAMES' = dict_keys(TABLE_MAP')
  /\ TABLE_RE' = [re_compile(TABLE_NAMES') EXCEPT !.trail_b = FALSE]
  /\ pc' = "idle"
  /\ UNCHANGED <<GROUPS, txt, issues, units, results>>

\* lines 87-99, run once when the module is imported
load_module ==
  /\ pc = "import"
  /\ TABLE_MAP' = merge_groups(GROUPS)
  /\ TABLE_NAMES' = sorted_by_len_desc(dict_keys(TABLE_MAP'))
  /\ TABLE_RE' = re_compile(TABLE_NAMES')
  /\ pc' = "idle"
  /\ UNCHANGED <<GROUPS, txt, issues, units, results>>

\* a caller passes o to find_mm_im_issues
call(o) ==
  /\ pc = "idle"
  /\ txt' = o
  /\ pc' = "called"
  /\ UNCHANGED <<GROUPS, TABLE_MAP, TABLE_NAMES, TABLE_RE, issues, units, results>>

\* lines 141-154: the call runs and returns
scan ==
  /\ pc = "called"
  /\ LET r == find_call(Globals, txt)
     IN  /\ issues' = r.ret
         /\ TABLE_MAP' = r.globals.TABLE_MAP
         /\ TABLE_NAMES' = r.globals.TABLE_NAMES
         /\ TABLE_RE' = r.globals.TABLE_RE
  /\ pc' = "returned"
  /\ UNCHANGED <<GROUPS, txt, units, results>>

\* a client posts the units us
post(us) ==
  /\ pc = "idle"
  /\ units' = us
  /\ pc' = "received"
  /\ UNCHANGED <<GROUPS, TABLE_MAP, TABLE_NAMES, TABLE_RE, txt, issues, results>>

\* lines 160-174: the handler, one result per unit in the order of the units
remediate_mm_im ==
  /\ pc = "received"
  /\ LET r == remediate_units(Globals, <<>>, units)
     IN  /\ results' = r.ret
         /\ TABLE_MAP' = r.globals.TABLE_MAP
         /\ TABLE_NAMES' = r.globals.TABLE_NAMES
         /\ TABLE_RE' = r.globals.TABLE_RE
  /\ pc' = "responded"
  /\ UNCHANGED <<GROUPS, txt, issues, units>>

\* the caller has its answer; the process waits for the next call
done ==
  /\ pc \in {"returned", "responded"}
  /\ pc' = "idle"
  /\ txt' = None
  /\ issues' = <<>>
  /\ units' = <<>>
  /\ results' = <<>>
  /\ UNCHANGED <<GROUPS, TABLE_MAP, TABLE_NAMES, TABLE_RE>>

Next ==
  \/ load_module
  \/ \E o \in Texts : call(o)
  \/ scan
  \/ \E us \in Batches(MaxUnits) : post(us)
  \/ remediate_mm_im
  \/ done

Spec == Init /\ [][Next]_vars

(***************************************************************************)
(* Loading the module when a group defines a key that another group        *)
(* defines too: the groups of the source with one entry more in one of     *)
(* them, its replacement naming the group.                                 *)
(***************************************************************************)
GROUP_TAGS == <<"CORE_DOC", "HYBRID", "AGGR", "DIMP", "HISTORY">>

\* the groups gs with an entry under the key k added at the end of group g
with_entry(gs, g, k) == [gs EXCEPT ![g] = Append(gs[g], E(k, GROUP_TAGS[g], ""))]

\* the source's groups with, in one group, an entry under a key of another
EditedGroups ==
  {with_entry(SOURCE_GROUPS, g, k) :
     <<g, k>> \in {x \in (1..Len(SOURCE_GROUPS)) \X SOURCE_KEYS :
                    ~dict_has(SOURCE_GROUPS[x[1]], x[2])}}

InitBuild ==
  /\ pc = "import"
  /\ (GROUPS \in EditedGroups \/ GROUPS = SOURCE_GROUPS)
  /\ TABLE_MAP = <<>>
  /\ TABLE_NAMES = <<>>
  /\ TABLE_RE = re_compile(<<>>)
  /\ txt = None
  /\ issues = <<>>
  /\ units = <<>>
  /\ results = <<>>

NextBuild == load_module

SpecBuild == InitBuild /\ [][NextBuild]_vars

(***************************************************************************)
(* What a state shows of the scans made, and the words of a text.          *)
(***************************************************************************)
\* the text an Optional[str] stands for
TextOf(o) == IF o = None THEN <<>> ELSE o[1]

\* the scans whose result the state holds: the text and the findings
Scans ==
  (IF pc = "returned" THEN {[t |-> TextOf(txt), hits |-> issues]} ELSE {})
  \cup (IF pc = "responded"
          THEN {[t |-> TextOf(units[i].code), hits |-> results[i].mb_txn_usage] :
                  i \in 1..Len(results)}
          ELSE {})

\* the offsets at which a word of t starts: a word character with none before
WordStarts(t) ==
  {p \in 0..(Len(t) - 1) :
     is_word_char(t[p + 1]) /\ (p = 0 \/ ~is_word_char(t[p]))}

\* the offset at which the word starting at p ends (exclusive)
WordEnd(t, p) ==
  CHOOSE e \in (p + 1)..Len(t) :
    /\ \A q \in (p + 1)..e : is_word_char(t[q])
    /\ (e = Len(t) \/ ~is_word_char(t[e + 1]))

\* the word of t starting at p
WordAt(t, p) == SubSeq(t, p + 1, WordEnd(t, p))

\* w is the key k in some casing: it has the length of k and each of its
\* characters is the letter of k at its place, in upper case as in k or in a
\* form of which that letter is the upper case
CasingOf(w, k) == Len(w) = Len(k) /\ \A i \in 1..Len(k) : upper_char(w[i]) = <<k[i]>>

\* the words of t, each with the offset at which it starts
Words(t) == {[start |-> p, word |-> WordAt(t, p)] : p \in WordStarts(t)}

\* the starts of those of the words ws that are the key k in some casing
OccurrencesOf(ws, k) == {w.start : w \in {x \in ws : CasingOf(x.word, k)}}

\* the indices of the findings that start at offset p
HitsAt(hits, p) == {i \in 1..Len(hits) : hits[i].start_char_in_unit = p}

ProperPrefix(a, b) == Len(a) < Len(b) /\ SubSeq(b, 1, Len(a)) = a

\* the pairs of source keys of which the first is a proper prefix of the second
PrefixPairs == {kk \in SOURCE_KEYS \X SOURCE_KEYS : ProperPrefix(kk[1], kk[2])}

\* k at offset p of t, in any casing, delimited or not
OccursAt(t, k, p) == p + Len(k) <= Len(t) /\ CasingOf(SubSeq(t, p + 1, p + Len(k)), k)

\* the item of TABLE_MAP under the key k
ItemOf(k) == TABLE_MAP[CHOOSE i \in 1..Len(TABLE_MAP) : TABLE_MAP[i].key = k]

\* the keys some two of the groups gs share
SharedKeys(gs) ==
  {k \in UNION {Range(dict_keys(gs[g])) : g \in 1..Len(gs)} :
     \E g, h \in 1..Len(gs) :
       g < h /\ k \in Range(dict_keys(gs[g])) /\ k \in Range(dict_keys(gs[h]))}

(***************************************************************************)
(* C1.  Whole-word guard: in every scan, the character right before a      *)
(* finding's start (if any) and the character at its end (if any) are not  *)
(* word characters (letters and digits, of ASCII or not, and underscore);  *)
(* and a text that is one identifier which is not itself a key in some     *)
(* casing, such as MSEGX, XMSEG or MSEG_1, yields no finding.              *)
(***************************************************************************)
WholeWordGuard ==
  \A c \in Scans :
    /\ \A i \in 1..Len(c.hits) :
         LET s == c.hits[i].start_char_in_unit
             e == c.hits[i].end_char_in_unit
         IN  /\ (s > 0 /\ s <= Len(c.t)) => ~is_word_char(c.t[s])
             /\ (e >= 0 /\ e < Len(c.t)) => ~is_word_char(c.t[e + 1])
    /\ ( /\ c.t # <<>>
         /\ \A q \in 1..Len(c.t) : is_word_char(c.t[q])
         /\ \A k \in SOURCE_KEYS : ~CasingOf(c.t, k) )
       => c.hits = <<>>

\* the scan of "MKPFmseg MARCH" returned the one finding of MARCH at 9
WholeWordGuardWitness ==
  /\ pc = "returned"
  /\ txt = Some(<<"M", "K", "P", "F", "m", "s", "e", "g", " ", "M", "A", "R", "C", "H">>)
  /\ Len(issues) = 1
  /\ issues[1].start_char_in_unit = 9
  /\ issues[1].end_char_in_unit = 14

(***************************************************************************)
(* C2.  Longest-match precedence: for keys K1, K2 with K1 a proper prefix  *)
(* of K2, at an offset where K2 (and so K1) stands in the text in some     *)
(* casing, no finding for K1 starts; and where the pattern matches there,  *)
(* K2 being delimited as a whole word, exactly one finding starts at that  *)
(* offset, it is for K2 and its span covers all of K2.                     *)
(***************************************************************************)
LongestMatchPrecedence ==
  \A c \in Scans :
    LET ws == Words(c.t)
    IN  \A kk \in PrefixPairs :
      \A p \in 0..Len(c.t) :
        OccursAt(c.t, kk[2], p) =>
          /\ \A i \in HitsAt(c.hits, p) : c.hits[i].table # kk[1]
          /\ p \in OccurrencesOf(ws, kk[2]) =>
               /\ Cardinality(HitsAt(c.hits, p)) = 1
               /\ \A i \in HitsAt(c.hits, p) :
                    /\ c.hits[i].table = kk[2]
                    /\ c.hits[i].end_char_in_unit = p + Len(kk[2])

\* the scan of "MARCH" returned one finding, for MARCH, from 0 to 5
LongestMatchWitness ==
  /\ pc = "returned"
  /\ txt = Some(<<"M", "A", "R", "C", "H">>)
  /\ Len(issues) = 1
  /\ issues[1].table = <<"M", "A", "R", "C", "H">>
  /\ issues[1].start_char_in_unit = 0
  /\ issues[1].end_char_in_unit = 5

(***************************************************************************)
(* C3.  Case handling: every word of the scanned text that is a key K in   *)
(* any mix of upper and lower case (letter by letter, the letter of K or a *)
(* character of which it is the upper case) gives exactly one finding at   *)
(* its start, whose table and target_name are the upper-case K, not the    *)
(* casing found.                                                           *)
(***************************************************************************)
CanonicalName ==
  \A c \in Scans :
    \A w \in Words(c.t) :
      \A k \in SOURCE_KEYS :
        CasingOf(w.word, k) =>
          /\ Cardinality(HitsAt(c.hits, w.start)) = 1
          /\ \A i \in HitsAt(c.hits, w.start) :
               c.hits[i].table = k /\ c.hits[i].target_name = k

\* the scan of "MsEg" returned one finding named MSEG
CanonicalNameWitness ==
  /\ pc = "returned"
  /\ txt = Some(<<"M", "s", "E", "g">>)
  /\ Len(issues) = 1
  /\ issues[1].table = <<"M", "S", "E", "G">>
  /\ issues[1].target_name = <<"M", "S", "E", "G">>

(***************************************************************************)
(* C4.  Ordering and overlap: the findings of a scan are in strictly       *)
(* ascending order of start offset, each ends no later than the next       *)
(* starts, and a key that is N of the words of the text has exactly N      *)
(* findings, one starting at each such word.                               *)
(***************************************************************************)
OrderedDisjointComplete ==
  \A c \in Scans :
    /\ \A i \in 1..(Len(c.hits) - 1) :
         /\ c.hits[i].start_char_in_unit < c.hits[i + 1].start_char_in_unit
         /\ c.hits[i].end_char_in_unit <= c.hits[i + 1].start_char_in_unit
    /\ LET ws == Words(c.t)
       IN  \A k \in SOURCE_KEYS :
             LET found == {i \in 1..Len(c.hits) : c.hits[i].table = k}
                 occurrences == OccurrencesOf(ws, k)
             IN  /\ Cardinality(found) = Cardinality(occurrences)
                 /\ {c.hits[i].start_char_in_unit : i \in found} = occurrences

\* the scan of "MKPF and MSEG and MKPF" returned MKPF, MSEG, MKPF at 0, 9, 18
OrderedWitness ==
  /\ pc = "returned"
  /\ txt = Some(<<"M", "K", "P", "F", " ", "a", "n", "d", " ", "M", "S", "E", "G", " ",
                  "a", "n", "d", " ", "M", "K", "P", "F">>)
  /\ [i \in 1..Len(issues) |-> issues[i].table]
       = <<<<"M", "K", "P", "F">>, <<"M", "S", "E", "G">>, <<"M", "K", "P", "F">>>>
  /\ [i \in 1..Len(issues) |-> issues[i].start_char_in_unit] = <<0, 9, 18>>

SingleKeyExactSpan ==
  \A c \in Scans :
    LET ws == Words(c.t)
    IN  \A w \in ws :
          (ws = {w} /\ w.word \in SOURCE_KEYS) =>
            /\ Len(c.hits) = 1
            /\ c.hits[1].table = w.word
            /\ c.hits[1].target_name = w.word
            /\ c.hits[1].start_char_in_unit = w.start
            /\ c.hits[1].end_char_in_unit = w.start + Len(w.word)
            /\ SubSeq(c.t, c.hits[1].start_char_in_unit + 1, c.hits[1].end_char_in_unit)
                 = w.word

\* the scan of " MSRS " returned the one finding of MSRS from 1 to 5
SingleKeyWitness ==
  /\ pc = "returned"
  /\ txt = Some(<<" ", "M", "S", "R", "S", " ">>)
  /\ Len(issues) = 1
  /\ issues[1].table = <<"M", "S", "R", "S">>
  /\ issues[1].start_char_in_unit = 1
  /\ issues[1].end_char_in_unit = 5

(***************************************************************************)
(* C7.  Every finding's suggested_statement is "Use R instead of N." with  *)
(* N the finding's name and R the 'new' value of the TABLE_MAP entry under *)
(* N, and its note is that entry's note; a finding of MSEG carries         *)
(* "Use MATDOC instead of MSEG." and the note of MSEG.                     *)
(***************************************************************************)
SuggestedStatement ==
  \A c \in Scans :
    \A i \in 1..Len(c.hits) :
      LET h == c.hits[i]
      IN  /\ dict_has(TABLE_MAP, h.table)
          /\ h.suggested_statement
               = "Use " \o ItemOf(h.table).val.new \o " instead of " \o str_of(h.table) \o "."
          /\ ItemOf(h.table).val.note # "" =>
               "note" \in DOMAIN h /\ h.note = ItemOf(h.table).val.note
          /\ h.table = <<"M", "S", "E", "G">> =>
               /\ h.suggested_statement = "Use MATDOC instead of MSEG."
               /\ h.note = "Item + header + attributes merged. Proxy CDS: NSDM_DDL_MSEG."

\* the scan of "SELECT * FROM MSEG WHERE ..." returned the finding of MSEG
\* from 14 to 18 with its statement and note
SuggestedWitness ==
  /\ pc = "returned"
  /\ txt = Some(<<"S", "E", "L", "E", "C", "T", " ", "*", " ", "F", "R", "O", "M", " ",
                  "M", "S", "E", "G", " ", "W", "H", "E", "R", "E", " ", ".", ".", ".">>)
  /\ Len(issues) = 1
  /\ issues[1].start_char_in_unit = 14
  /\ issues[1].end_char_in_unit = 18
  /\ issues[1].suggested_statement = "Use MATDOC instead of MSEG."
  /\ issues[1].note = "Item + header + attributes merged. Proxy CDS: NSDM_DDL_MSEG."

(***************************************************************************)
(* C8.  Empty or absent input: a call of find_mm_im_issues with None or    *)
(* with "" returns the empty list, and the endpoint's answer holds one     *)
(* result per unit, with the unit's own code and an empty findings list    *)
(* for a unit whose code is None or "".                                    *)
(***************************************************************************)
EmptyInputNoFindings ==
  /\ (pc = "returned" /\ txt \in {None, Some(<<>>)}) => issues = <<>>
  /\ pc = "responded" =>
       /\ Len(results) = Len(units)
       /\ \A i \in 1..Len(units) :
            /\ results[i].code = units[i].code
            /\ units[i].code \in {None, Some(<<>>)} => results[i].mb_txn_usage = <<>>

\* the endpoint answered a request of a unit without code and a unit with
\* empty code
EmptyInputWitness ==
  /\ pc = "responded"
  /\ units = <<[code |-> None], [code |-> Some(<<>>)]>>
  /\ results = <<[code |-> None, mb_txn_usage |-> <<>>],
                 [code |-> Some(<<>>), mb_txn_usage |-> <<>>]>>

(***************************************************************************)
(* C10.  Soundness of findings: every finding has 0 <= start < end <= the  *)
(* length of the text, its name is a key of TABLE_MAP, end - start is the  *)
(* length of the name, and the text from start to end is the name up to    *)
(* case (its upper case is the name, and the pattern's comparison takes it *)
(* for the name); so a text in which no key stands anywhere has no         *)
(* findings.                                                               *)
(***************************************************************************)
FindingsSound ==
  \A c \in Scans :
    /\ \A i \in 1..Len(c.hits) :
         LET s == c.hits[i].start_char_in_unit
             e == c.hits[i].end_char_in_unit
             n == c.hits[i].table
         IN  /\ 0 <= s /\ s < e /\ e <= Len(c.t)
             /\ dict_has(TABLE_MAP, n)
             /\ e - s = Len(n)
             /\ upper(SubSeq(c.t, s + 1, e)) = upper(n)
             /\ literal_at(TABLE_RE, c.t, s, n)
    /\ c.hits # <<>> =>
         \E k \in SOURCE_KEYS : \E p \in 0..Len(c.t) : OccursAt(c.t, k, p)

\* the scan of ".MaRcH" returned the finding of MARCH from 1 to 6
SoundWitness ==
  /\ pc = "returned"
  /\ txt = Some(<<".", "M", "a", "R", "c", "H">>)
  /\ Len(issues) = 1
  /\ issues[1].table = <<"M", "A", "R", "C", "H">>
  /\ issues[1].start_char_in_unit = 1
  /\ issues[1].end_char_in_unit = 6

====
